---------------------------- MODULE Spec2Model ----------------------------
(***************************************************************************)
(* A state-machine model of the chess analyzer: the Engine module (the     *)
(* UCI session with the Stockfish worker), the Board module (selection,    *)
(* highlights, play / edit mode, position re-synthesis) and the            *)
(* coordinator of app.js.                                                  *)
(*                                                                         *)
(* Text is modelled as it is handled by the code: an engine line is the    *)
(* sequence of the tokens line.split(' ') yields, a FEN text is the        *)
(* sequence of its characters.  A JavaScript number is a fraction          *)
(* [num, den]; den = 0 is NaN.  An optional field of a JavaScript object   *)
(* is <<>> (undefined) or <<v>>.                                           *)
(***************************************************************************)
EXTENDS Integers, Sequences, FiniteSets, TLC

VARIABLES
    worker,         \* Engine: worker # null
    isReady,        \* Engine: isReady
    isAnalyzing,    \* Engine: isAnalyzing
    analysisLines,  \* Engine: analysisLines, the rank table (rank -> info)
    sent,           \* every command handed to worker.postMessage, in order
    cmdQ,           \* commands posted to the worker and not yet read by it
    outQ,           \* lines posted by the worker and not yet delivered
    sfPos,          \* Stockfish: the position set by the last 'position fen'
    sfSearching,    \* Stockfish: a 'go infinite' search is running
    inits,          \* number of Engine.init calls made so far
    board,          \* Board: the occupancy the chessboard.js widget shows
    game,           \* Board: the chess.js game
    isEditMode,     \* Board: isEditMode
    selectedPiece,  \* Board: selectedPiece, the spare piece being dragged
    selectedSquare, \* Board: selectedSquare
    hlSelected,     \* squares carrying the class highlight-selected
    hlSquares,      \* squares carrying highlight-white or highlight-black
    orientation,    \* the side the widget draws at the bottom
    editListeners,  \* 'change' listeners setEditMode added to #selectTurn
    selectTurn,     \* the value of #selectTurn
    syncTimers,     \* pending setTimeout callbacks of edit-mode drops
    snapPending,    \* a drop animation is running (onSnapEnd is due)
    dragging,       \* the piece the widget is dragging, with its source
    edits,          \* number of edit-mode changes of the widget so far
    appIsAnalyzing, \* app.js: isAnalyzing
    display,        \* the analysis display: the update it shows, if any
    fired,          \* the callbacks invoked by the last step, in order
    lastOp          \* the operation the last step performed

engineVars == <<worker, isReady, isAnalyzing, analysisLines, sent, cmdQ, outQ,
                sfPos, sfSearching, inits>>
boardVars == <<board, game, isEditMode, selectedPiece, selectedSquare,
               hlSelected, hlSquares, orientation, editListeners, selectTurn, syncTimers,
               snapPending, dragging, edits>>
appVars == <<appIsAnalyzing, display>>
vars == <<engineVars, boardVars, appVars, fired, lastOp>>

----------------------------------------------------------------------------
(* Bounds of the model.                                                    *)

MaxSent == 9
MaxOutQ == 2
MaxInits == 1
MaxEdits == 1
MaxListeners == 1
MaxTimers == 1
MaxEntries == 3

----------------------------------------------------------------------------
(* JavaScript values.                                                      *)

Undefined == <<>>
Some(v) == <<v>>
IsDefined(o) == o # <<>>
Val(o) == o[1]

NaN == [num |-> 0, den |-> 0]
Num(n) == [num |-> n, den |-> 1]
IsNaN(x) == x.den = 0

Abs(n) == IF n < 0 THEN -n ELSE n

RECURSIVE Gcd(_, _)
Gcd(a, b) == IF b = 0 THEN a ELSE Gcd(b, a % b)

\* A division that leaves its dividend as it is.
DivByKept(x, d) == x

\* x / d for a number x and a positive integer d, in lowest terms.
DivBy(x, d) ==
    IF IsNaN(x) THEN NaN
    ELSE LET g == Gcd(Abs(x.num), x.den * d)
         IN  [num |-> x.num \div g, den |-> (x.den * d) \div g]

\* The decimal numerals that occur in the lines of the model.
Numerals ==
    { <<"0", 0>>, <<"1", 1>>, <<"2", 2>>, <<"3", 3>>, <<"5", 5>>,
      <<"10", 10>>, <<"20", 20>>, <<"35", 35>>, <<"100", 100>>,
      <<"-3", -3>>, <<"-30", -30>> }

\* parseInt(token): the integer a numeral denotes, NaN for any other token
\* and for undefined.
parseInt(o) ==
    IF IsDefined(o) /\ \E p \in Numerals : p[1] = Val(o)
    THEN Num((CHOOSE p \in Numerals : p[1] = Val(o))[2])
    ELSE NaN

\* parts[i] of a JavaScript array, 1-based here: undefined past the end.
At(parts, i) == IF i \in 1..Len(parts) THEN Some(parts[i]) ELSE Undefined

\* JavaScript truthiness of an optional number.
Truthy(o) == IsDefined(o) /\ ~IsNaN(Val(o)) /\ Val(o).num # 0

----------------------------------------------------------------------------
(* Engine lines.                                                           *)

\* Tokens of the model that have 'info' as a prefix, and that contain
\* 'score' or 'pv' as a substring.
startsWithInfo(ln) == Len(ln) > 0 /\ ln[1] \in {"info"}
includesScore(ln) == \E i \in 1..Len(ln) : ln[i] \in {"score"}
includesPv(ln) == \E i \in 1..Len(ln) : ln[i] \in {"pv", "multipv"}

EmptyInfo ==
    [depth |-> Undefined, seldepth |-> Undefined, multipv |-> Undefined,
     score |-> Undefined, scoreType |-> Undefined, nodes |-> Undefined,
     nps |-> Undefined, time |-> Undefined, pv |-> Undefined]

\* The loop of parseAnalysisInfo from index i (1-based) on.
RECURSIVE ParseLoop(_, _, _)
ParseLoop(parts, i, info) ==
    IF i > Len(parts) THEN info
    ELSE LET key == parts[i]
             n1 == parseInt(At(parts, i + 1))
         IN  CASE key = "depth" ->
                    ParseLoop(parts, i + 2, [info EXCEPT !.depth = Some(n1)])
               [] key = "seldepth" ->
                    ParseLoop(parts, i + 2, [info EXCEPT !.seldepth = Some(n1)])
               [] key = "multipv" ->
                    ParseLoop(parts, i + 2, [info EXCEPT !.multipv = Some(n1)])
               [] key = "score" ->
                    LET scoreType == At(parts, i + 1)
                        scoreValue == parseInt(At(parts, i + 2))
                    IN  IF scoreType = Some("cp")
                        THEN ParseLoop(parts, i + 3,
                                 [info EXCEPT !.score = Some(DivBy(scoreValue, 100)),
                                              !.scoreType = Some("cp")])
                        ELSE IF scoreType = Some("mate")
                        THEN ParseLoop(parts, i + 3,
                                 [info EXCEPT !.score = Some(scoreValue),
                                              !.scoreType = Some("mate")])
                        ELSE ParseLoop(parts, i + 3, info)
               [] key = "nodes" ->
                    ParseLoop(parts, i + 2, [info EXCEPT !.nodes = Some(n1)])
               [] key = "nps" ->
                    ParseLoop(parts, i + 2, [info EXCEPT !.nps = Some(n1)])
               [] key = "time" ->
                    ParseLoop(parts, i + 2, [info EXCEPT !.time = Some(n1)])
               [] key = "pv" ->
                    [info EXCEPT !.pv = Some(SubSeq(parts, i + 1, Len(parts)))]
               [] OTHER -> ParseLoop(parts, i + 1, info)

\* The info object parseAnalysisInfo builds from a line.
ParseInfo(ln) == ParseLoop(ln, 1, EmptyInfo)

\* if (info.multipv && info.pv && info.pv.length > 0)
Storable(info) ==
    Truthy(info.multipv) /\ IsDefined(info.pv) /\ Len(Val(info.pv)) > 0

EmptyTable == <<>>

\* analysisLines[info.multipv] = info
PutLine(tbl, info) ==
    LET r == Val(info.multipv).num
    IN  [k \in (DOMAIN tbl) \cup {r} |-> IF k = r THEN info ELSE tbl[k]]

Fire(s, cb, arg) == [s EXCEPT !.fired = Append(@, [cb |-> cb, arg |-> arg])]

\* ui.js updateBestMoves formats the score of every rank 1..3 that has
\* moves before it touches the page.  Engine.formatScore of a line without
\* score raises a TypeError with white to move (undefined.toFixed); with
\* black to move the score is negated first (to NaN) and nothing is raised,
\* nor for a 'mate' score.
FormatScoreThrows(lines, turn) ==
    /\ turn = "w"
    /\ \E i \in (1..3) \cap DOMAIN lines :
          /\ IsDefined(lines[i].pv) /\ Len(Val(lines[i].pv)) > 0
          /\ ~IsDefined(lines[i].score)
          /\ lines[i].scoreType # Some("mate")

\* onAnalysisUpdate without the test of the coordinator's flag.
onAnalysisUpdateAlways(s, data) == [s EXCEPT !.display = Some(data)]

\* app.js onAnalysisUpdate, the onAnalysis callback: the display shows the
\* update (best moves, depth / nodes / time, evaluation bar), unless the
\* coordinator is idle or the update of the list of best moves raises.
onAnalysisUpdate(s, data) ==
    IF ~s.appIsAnalyzing THEN s
    ELSE IF FormatScoreThrows(data.lines, s.game.turn) THEN s
    ELSE [s EXCEPT !.display = Some(data)]

\* parseAnalysisInfo that reports the table as it was before the line.
parseAnalysisInfoOldTable(s, ln) ==
    LET info == ParseInfo(ln)
    IN  IF Storable(info)
        THEN LET tbl == PutLine(s.analysisLines, info)
                 data == [lines |-> s.analysisLines, depth |-> info.depth,
                          nodes |-> info.nodes, time |-> info.time]
             IN  onAnalysisUpdate(
                     Fire([s EXCEPT !.analysisLines = tbl], "onAnalysis", data),
                     data)
        ELSE s

parseAnalysisInfo(s, ln) ==
    LET info == ParseInfo(ln)
    IN  IF Storable(info)
        THEN LET tbl == PutLine(s.analysisLines, info)
                 data == [lines |-> tbl, depth |-> info.depth,
                          nodes |-> info.nodes, time |-> info.time]
             IN  onAnalysisUpdate(
                     Fire([s EXCEPT !.analysisLines = tbl], "onAnalysis", data),
                     data)
        ELSE s

----------------------------------------------------------------------------
(* Engine operations, as functions of the program state s.                 *)

send(s, command) ==
    IF s.worker
    THEN [s EXCEPT !.cmdQ = Append(@, command), !.sent = Append(@, command)]
    ELSE s

CmdUci == <<"uci">>
CmdMultiPV == <<"setoption name MultiPV value 3">>
CmdThreads == <<"setoption name Threads value 1">>
CmdIsReady == <<"isready">>
CmdStop == <<"stop">>
CmdGo == <<"go infinite">>
CmdPosition(fen) == <<"position fen", fen>>

\* stop that leaves the analyzing flag set.
stopKeepsFlag(s) ==
    IF s.isAnalyzing THEN send(s, CmdStop) ELSE s

stop(s) ==
    IF s.isAnalyzing
    THEN [send(s, CmdStop) EXCEPT !.isAnalyzing = FALSE]
    ELSE s

\* analyze without its readiness check.
analyzeUnguarded(s, fen) ==
    LET s1 == IF s.isAnalyzing THEN stop(s) ELSE s
        s2 == [s1 EXCEPT !.analysisLines = EmptyTable, !.isAnalyzing = TRUE]
    IN  send(send(s2, CmdPosition(fen)), CmdGo)

\* analyze that does not stop the running analysis first.
analyzeNoStop(s, fen) ==
    IF ~s.isReady THEN s
    ELSE LET s2 == [s EXCEPT !.analysisLines = EmptyTable, !.isAnalyzing = TRUE]
         IN  send(send(s2, CmdPosition(fen)), CmdGo)

analyze(s, fen) ==
    IF ~s.isReady THEN s
    ELSE LET s1 == IF s.isAnalyzing THEN stop(s) ELSE s
             s2 == [s1 EXCEPT !.analysisLines = EmptyTable, !.isAnalyzing = TRUE]
         IN  send(send(s2, CmdPosition(fen)), CmdGo)

handleMessage(s, ln) ==
    LET s1 == IF ln = <<"uciok">>
              THEN send(send(send(s, CmdMultiPV), CmdThreads), CmdIsReady)
              ELSE s
        s2 == IF ln = <<"readyok">>
              THEN Fire([s1 EXCEPT !.isReady = TRUE], "onReady", <<>>)
              ELSE s1
    IN  IF startsWithInfo(ln) /\ includesScore(ln) /\ includesPv(ln)
        THEN parseAnalysisInfo(s2, ln)
        ELSE s2

handleError(s) == Fire(s, "onError", <<"Erreur Stockfish">>)

\* Engine.init; spawned = FALSE is new Worker(...) throwing.
EngineInit(s, spawned) ==
    IF spawned
    THEN send([s EXCEPT !.worker = TRUE], CmdUci)
    ELSE Fire(s, "onError", <<"Impossible de charger Stockfish">>)

\* Engine.destroy; terminating the worker discards what is in flight.
destroy(s) ==
    IF s.worker
    THEN [stop(s) EXCEPT !.worker = FALSE, !.isReady = FALSE,
                         !.cmdQ = <<>>, !.outQ = <<>>,
                         !.sfPos = Undefined, !.sfSearching = FALSE]
    ELSE s

ready(s) == s.isReady
analyzing(s) == s.isAnalyzing

----------------------------------------------------------------------------
(* Positions and their text form.                                          *)

\* A square is <<file, rank>>, a..h being 1..8; a piece is the two
\* characters of its chessboard.js code, <<"w", "K">> for 'wK'; an occupancy
\* maps every square to a piece or to undefined.
Squares == (1..8) \X (1..8)
Colors == {"w", "b"}

toLowerCase(ch) ==
    CASE ch = "P" -> "p" [] ch = "N" -> "n" [] ch = "B" -> "b"
      [] ch = "R" -> "r" [] ch = "Q" -> "q" [] ch = "K" -> "k"
      [] OTHER -> ch

\* String(n) for the run lengths 1..8.
DigitChar(n) ==
    CASE n = 1 -> "1" [] n = 2 -> "2" [] n = 3 -> "3" [] n = 4 -> "4"
      [] n = 5 -> "5" [] n = 6 -> "6" [] n = 7 -> "7" [] n = 8 -> "8"

\* The inner loop of positionToFen over the files of one rank: acc is the
\* text built so far for the rank, empty the pending run of empty squares.
RECURSIVE FenRank(_, _, _, _, _)
FenRank(position, rank, fileIdx, empty, acc) ==
    IF fileIdx > 8
    THEN IF empty > 0 THEN Append(acc, DigitChar(empty)) ELSE acc
    ELSE LET piece == position[<<fileIdx, rank>>]
         IN  IF piece # Undefined
             THEN LET flushed == IF empty > 0
                                 THEN Append(acc, DigitChar(empty)) ELSE acc
                      pieceChar == IF piece[1] = "w"
                                   THEN piece[2]
                                   ELSE toLowerCase(piece[2])
                  IN  FenRank(position, rank, fileIdx + 1, 0,
                              Append(flushed, pieceChar))
             ELSE FenRank(position, rank, fileIdx + 1, empty + 1, acc)

\* The outer loop of positionToFen, rank 8 down to 1.
RECURSIVE FenPlacement(_, _)
FenPlacement(position, rank) ==
    IF rank < 1 THEN <<>>
    ELSE FenRank(position, rank, 1, 0, <<>>)
         \o (IF rank > 1 THEN <<"/">> ELSE <<>>)
         \o FenPlacement(position, rank - 1)

FenSuffix == <<" ", "K", "Q", "k", "q", " ", "-", " ", "0", " ", "1">>

\* positionToFen that writes the ranks from 1 up to 8.
positionToFenAscending(position, turn) ==
    LET row(r) == FenRank(position, r, 1, 0, <<>>)
    IN  row(1) \o <<"/">> \o row(2) \o <<"/">> \o row(3) \o <<"/">> \o row(4)
        \o <<"/">> \o row(5) \o <<"/">> \o row(6) \o <<"/">> \o row(7)
        \o <<"/">> \o row(8) \o <<" ", turn>> \o FenSuffix

positionToFen(position, turn) ==
    FenPlacement(position, 8) \o <<" ", turn>> \o FenSuffix

\* The index of the first ch in text at or after i, Len(text) + 1 if none.
RECURSIVE IndexFrom(_, _, _)
IndexFrom(text, ch, i) ==
    IF i > Len(text) THEN Len(text) + 1
    ELSE IF text[i] = ch THEN i ELSE IndexFrom(text, ch, i + 1)

\* The side-to-move field of a FEN text.
FenTurn(fen) ==
    LET sp == IndexFrom(fen, " ", 1)
    IN  IF sp < Len(fen) THEN fen[sp + 1] ELSE "w"

BackRank == <<"R", "N", "B", "Q", "K", "B", "N", "R">>

\* The standard starting position ('start' of chessboard.js, new Chess()).
StartPosition ==
    [sq \in Squares |->
        CASE sq[2] = 1 -> <<"w", BackRank[sq[1]]>>
          [] sq[2] = 2 -> <<"w", "P">>
          [] sq[2] = 7 -> <<"b", "P">>
          [] sq[2] = 8 -> <<"b", BackRank[sq[1]]>>
          [] OTHER -> Undefined]

EmptyPosition == [sq \in Squares |-> Undefined]

e2 == <<5, 2>>
e4 == <<5, 4>>
e7 == <<5, 7>>
f1 == <<6, 1>>

\* position with the piece of square from moved to square to.
MovePiece(position, from, to) ==
    [position EXCEPT ![to] = position[from], ![from] = Undefined]

StartFen == positionToFen(StartPosition, "w")

----------------------------------------------------------------------------
(* The rules engine (chess.js): a game is an occupancy and the side to     *)
(* move.  Moves are those of chess without castling and en passant, which  *)
(* the squares the model taps never make available; a pawn that reaches    *)
(* the last rank becomes a queen.  The castling, en-passant and counter    *)
(* fields of a position text are not tracked.                              *)

Opp(color) == IF color = "w" THEN "b" ELSE "w"
Sign(n) == IF n > 0 THEN 1 ELSE IF n < 0 THEN -1 ELSE 0

Aligned(from, to) ==
    LET df == to[1] - from[1]
        dr == to[2] - from[2]
    IN  from # to /\ (df = 0 \/ dr = 0 \/ Abs(df) = Abs(dr))

\* The squares strictly between two aligned squares.
Between(from, to) ==
    LET df == Sign(to[1] - from[1])
        dr == Sign(to[2] - from[2])
        n == IF to[1] # from[1] THEN Abs(to[1] - from[1]) ELSE Abs(to[2] - from[2])
    IN  {<<from[1] + k * df, from[2] + k * dr>> : k \in 1..(n - 1)}

ClearPath(occ, from, to) == \A sq \in Between(from, to) : occ[sq] = Undefined

\* The piece on from attacks the square to.
Attacks(occ, from, to) ==
    LET piece == occ[from]
        df == to[1] - from[1]
        dr == to[2] - from[2]
    IN  /\ piece # Undefined
        /\ from # to
        /\ CASE piece[2] = "P" ->
                   Abs(df) = 1 /\ dr = (IF piece[1] = "w" THEN 1 ELSE -1)
             [] piece[2] = "N" ->
                   {Abs(df), Abs(dr)} = {1, 2}
             [] piece[2] = "K" ->
                   Abs(df) <= 1 /\ Abs(dr) <= 1
             [] piece[2] = "B" ->
                   Abs(df) = Abs(dr) /\ ClearPath(occ, from, to)
             [] piece[2] = "R" ->
                   (df = 0 \/ dr = 0) /\ ClearPath(occ, from, to)
             [] piece[2] = "Q" ->
                   Aligned(from, to) /\ ClearPath(occ, from, to)

InCheck(occ, color) ==
    \E k \in Squares :
        /\ occ[k] = <<color, "K">>
        /\ \E from \in Squares :
               /\ occ[from] # Undefined
               /\ occ[from][1] = Opp(color)
               /\ Attacks(occ, from, k)

\* The piece on from may go to the square to, its own king's safety aside.
PseudoLegal(occ, from, to) ==
    LET piece == occ[from]
        df == to[1] - from[1]
        dr == to[2] - from[2]
        fwd == IF piece[1] = "w" THEN 1 ELSE -1
        home == IF piece[1] = "w" THEN 2 ELSE 7
    IN  /\ piece # Undefined
        /\ from # to
        /\ (occ[to] = Undefined \/ occ[to][1] # piece[1])
        /\ IF piece[2] = "P"
           THEN \/ df = 0 /\ dr = fwd /\ occ[to] = Undefined
                \/ /\ df = 0 /\ dr = 2 * fwd /\ from[2] = home
                   /\ occ[to] = Undefined
                   /\ occ[<<from[1], from[2] + fwd>>] = Undefined
                \/ Abs(df) = 1 /\ dr = fwd /\ occ[to] # Undefined
           ELSE Attacks(occ, from, to)

\* The occupancy after the piece on from went to the square to.
ApplyMove(occ, from, to) ==
    LET piece == occ[from]
        placed == IF piece[2] = "P" /\ to[2] \in {1, 8}
                  THEN <<piece[1], "Q">> ELSE piece
    IN  [occ EXCEPT ![to] = placed, ![from] = Undefined]

LegalMove(g, from, to) ==
    /\ from \in Squares /\ to \in Squares
    /\ g.occ[from] # Undefined
    /\ g.occ[from][1] = g.turn
    /\ PseudoLegal(g.occ, from, to)
    /\ ~InCheck(ApplyMove(g.occ, from, to), g.turn)

\* game.move({from, to, promotion: 'q'}): null, or the move made.
GameMove(g, from, to) ==
    IF LegalMove(g, from, to)
    THEN Some([occ |-> ApplyMove(g.occ, from, to), turn |-> Opp(g.turn)])
    ELSE Undefined

\* game.moves({square, verbose: true}), as the set of its destinations.
GameMoves(g, sq) == {to \in Squares : LegalMove(g, sq, to)}

GameGet(g, sq) == g.occ[sq]
GameTurn(g) == g.turn

HasMove(g) ==
    \E from \in Squares :
        /\ g.occ[from] # Undefined
        /\ g.occ[from][1] = g.turn
        /\ \E to \in Squares : LegalMove(g, from, to)
GameInCheck(g) == InCheck(g.occ, g.turn)

\* insufficient_material(): two kings alone, with one bishop or knight, or
\* with bishops that all stand on squares of one colour.
InsufficientMaterial(g) ==
    LET occupied == {sq \in Squares : g.occ[sq] # Undefined}
        ofType(tp) == {sq \in occupied : g.occ[sq][2] = tp}
        bishops == ofType("B")
    IN  \/ Cardinality(occupied) = 2
        \/ Cardinality(occupied) = 3
             /\ Cardinality(bishops) + Cardinality(ofType("N")) = 1
        \/ /\ Cardinality(occupied) = Cardinality(bishops) + 2
           /\ bishops # {}
           /\ \/ \A sq \in bishops : (sq[1] + sq[2]) % 2 = 0
              \/ \A sq \in bishops : (sq[1] + sq[2]) % 2 = 1

GameOver(g) == InsufficientMaterial(g) \/ ~HasMove(g)

NewGame == [occ |-> StartPosition, turn |-> "w"]
ClearedGame == [occ |-> EmptyPosition, turn |-> "w"]

\* game.fen(): the placement and the side to move, the other fields at
\* their defaults.
GameFen(g) == positionToFen(g.occ, g.turn)

\* text split at every ch.
RECURSIVE Split(_, _)
Split(text, ch) ==
    LET i == IndexFrom(text, ch, 1)
    IN  IF i > Len(text) THEN <<text>>
        ELSE <<SubSeq(text, 1, i - 1)>> \o Split(SubSeq(text, i + 1, Len(text)), ch)

DigitValue(ch) ==
    CASE ch = "1" -> 1 [] ch = "2" -> 2 [] ch = "3" -> 3 [] ch = "4" -> 4
      [] ch = "5" -> 5 [] ch = "6" -> 6 [] ch = "7" -> 7 [] ch = "8" -> 8
      [] OTHER -> 0

PieceOfChar(ch) ==
    CASE ch = "P" -> <<"w", "P">> [] ch = "N" -> <<"w", "N">>
      [] ch = "B" -> <<"w", "B">> [] ch = "R" -> <<"w", "R">>
      [] ch = "Q" -> <<"w", "Q">> [] ch = "K" -> <<"w", "K">>
      [] ch = "p" -> <<"b", "P">> [] ch = "n" -> <<"b", "N">>
      [] ch = "b" -> <<"b", "B">> [] ch = "r" -> <<"b", "R">>
      [] ch = "q" -> <<"b", "Q">> [] ch = "k" -> <<"b", "K">>
      [] OTHER -> Undefined

\* One rank field read from its i-th character on, acc being the squares
\* met so far: the eight squares of the rank by file, or Undefined when the
\* field does not describe exactly 8 squares.
RECURSIVE DecodeRow(_, _, _, _)
DecodeRow(row, i, prevDigit, acc) ==
    IF i > Len(row)
    THEN IF Len(acc) = 8 THEN Some(acc) ELSE Undefined
    ELSE IF DigitValue(row[i]) > 0
         THEN IF prevDigit \/ Len(acc) + DigitValue(row[i]) > 8 THEN Undefined
              ELSE DecodeRow(row, i + 1, TRUE, acc \o [k \in 1..DigitValue(row[i]) |-> Undefined])
         ELSE IF PieceOfChar(row[i]) = Undefined \/ Len(acc) >= 8 THEN Undefined
              ELSE DecodeRow(row, i + 1, FALSE, Append(acc, PieceOfChar(row[i])))

\* The rank fields from the k-th on, decoded.
RECURSIVE DecodeRows(_, _)
DecodeRows(rows, k) ==
    IF k > Len(rows) THEN <<>>
    ELSE <<DecodeRow(rows[k], 1, FALSE, <<>>)>> \o DecodeRows(rows, k + 1)

\* The game a position text describes, or Undefined when the loader
\* rejects the text: six fields, eight rank fields of eight squares each, a
\* side to move.
FenDecode(fen) ==
    LET fields == Split(fen, " ")
        rows == Split(fields[1], "/")
        decoded == DecodeRows(rows, 1)
    IN  IF Len(fields) # 6 \/ Len(rows) # 8 THEN Undefined
        ELSE IF fields[2] \notin {<<"w">>, <<"b">>} THEN Undefined
        ELSE IF \E k \in 1..8 : decoded[k] = Undefined THEN Undefined
        ELSE Some([occ |-> [sq \in Squares |-> Val(decoded[9 - sq[2]])[sq[1]]],
                   turn |-> fields[2][1]])

----------------------------------------------------------------------------
(* The coordinator's position callback and the Board module.               *)

\* app.js onPositionChange: restarts the analysis when one is running.
\* onPositionChange that leaves a running analysis on its old position.
onPositionChangeIdle(s, info) == s

onPositionChange(s, info) ==
    IF s.appIsAnalyzing THEN analyze(s, info.fen) ELSE s

PositionInfo(g) ==
    LET check == GameInCheck(g)
        stuck == ~HasMove(g)
        bare == InsufficientMaterial(g)
    IN  [fen |-> GameFen(g), turn |-> GameTurn(g), isCheck |-> check,
         isCheckmate |-> check /\ stuck, isStalemate |-> ~check /\ stuck,
         isDraw |-> (~check /\ stuck) \/ bare,
         isGameOver |-> stuck \/ bare]

notifyPositionChange(s) ==
    LET info == PositionInfo(s.game)
    IN  onPositionChange(Fire(s, "onPositionChange", info), info)

removeHighlights(s) == [s EXCEPT !.hlSelected = {}, !.hlSquares = {}]
highlightSquare(s, sq) == [s EXCEPT !.hlSquares = @ \cup {sq}]
highlightSelected(s, sq) == [s EXCEPT !.hlSelected = @ \cup {sq}]
showLegalMoves(s, sq) == [s EXCEPT !.hlSquares = @ \cup GameMoves(s.game, sq)]

\* board.position(fen): the widget shows the placement of the text.
BoardPosition(s, fen) == [s EXCEPT !.board = Val(FenDecode(fen)).occ]

\* A result of a handler: the state it leaves and the value it returns.
Result(s, v) == [st |-> s, ret |-> v]

\* onDragStart without the test for a finished game.
onDragStartGameOver(s, source, piece) ==
    IF s.isEditMode
    THEN Result(removeHighlights([s EXCEPT !.selectedSquare = Undefined]), TRUE)
    ELSE IF GameTurn(s.game) = piece[1]
    THEN Result(removeHighlights([s EXCEPT !.selectedSquare = Undefined]), TRUE)
    ELSE Result(s, FALSE)

onDragStart(s, source, piece) ==
    IF s.isEditMode
    THEN Result(removeHighlights([s EXCEPT !.selectedSquare = Undefined]), TRUE)
    ELSE IF GameOver(s.game) THEN Result(s, FALSE)
    ELSE IF GameTurn(s.game) = piece[1]
    THEN Result(removeHighlights([s EXCEPT !.selectedSquare = Undefined]), TRUE)
    ELSE Result(s, FALSE)

Offboard == <<0, 0>>

\* syncGameFromBoard that ignores the side-to-move selector.
syncGameFromBoardWhite(s) ==
    LET fen == positionToFen(s.board, "w")
        loaded == FenDecode(fen)
    IN  IF IsDefined(loaded) THEN [s EXCEPT !.game = Val(loaded)] ELSE s

\* syncGameFromBoard whose loader empties the game before it rejects a text.
syncGameFromBoardClears(s) ==
    LET fen == positionToFen(s.board, s.selectTurn)
        loaded == FenDecode(fen)
    IN  IF IsDefined(loaded) THEN [s EXCEPT !.game = Val(loaded)]
        ELSE [s EXCEPT !.game = ClearedGame]

syncGameFromBoard(s) ==
    LET fen == positionToFen(s.board, s.selectTurn)
        loaded == FenDecode(fen)
    IN  IF IsDefined(loaded) THEN [s EXCEPT !.game = Val(loaded)] ELSE s

\* onDrop that notifies of a rejected move too.
onDropNotifiesSnapback(s, source, target, piece) ==
    IF s.isEditMode
    THEN IF target = Offboard THEN Result(s, "trash")
         ELSE Result([s EXCEPT !.syncTimers = @ + 1], "")
    ELSE LET move == GameMove(s.game, source, target)
         IN  IF move = Undefined THEN Result(notifyPositionChange(s), "snapback")
             ELSE Result(notifyPositionChange([s EXCEPT !.game = Val(move)]), "")

\* onDrop returns 'snapback', 'trash' or nothing ("").
onDrop(s, source, target, piece) ==
    IF s.isEditMode
    THEN IF target = Offboard THEN Result(s, "trash")
         ELSE Result([s EXCEPT !.syncTimers = @ + 1], "")
    ELSE LET move == GameMove(s.game, source, target)
         IN  IF move = Undefined THEN Result(s, "snapback")
             ELSE Result(notifyPositionChange([s EXCEPT !.game = Val(move)]), "")

\* The callback of the timer an edit-mode drop sets.
syncTimerFired(s) ==
    notifyPositionChange(syncGameFromBoard([s EXCEPT !.syncTimers = @ - 1]))

onSnapEnd(s) ==
    IF ~s.isEditMode THEN BoardPosition(s, GameFen(s.game)) ELSE s

onMouseoverSquare(s, sq) ==
    LET moves == GameMoves(s.game, sq)
    IN  IF s.isEditMode THEN s
        ELSE IF moves = {} THEN s
        ELSE [highlightSquare(s, sq) EXCEPT !.hlSquares = @ \cup moves]

onMouseoutSquare(s, sq) ==
    IF s.selectedSquare = Undefined THEN removeHighlights(s) ELSE s

\* onSquareClick that keeps the old highlights when the selection switches.
onSquareClickKeepsHighlights(s, sq) ==
    IF s.isEditMode THEN s
    ELSE IF s.selectedSquare # Undefined
    THEN LET move == GameMove(s.game, Val(s.selectedSquare), sq)
             piece == GameGet(s.game, sq)
         IN  IF move # Undefined
             THEN LET s1 == BoardPosition([s EXCEPT !.game = Val(move)],
                                          GameFen(Val(move)))
                  IN  notifyPositionChange(
                          removeHighlights([s1 EXCEPT !.selectedSquare = Undefined]))
             ELSE IF piece # Undefined /\ piece[1] = GameTurn(s.game)
             THEN showLegalMoves(
                      highlightSelected([s EXCEPT !.selectedSquare = Some(sq)], sq),
                      sq)
             ELSE removeHighlights([s EXCEPT !.selectedSquare = Undefined])
    ELSE LET piece == GameGet(s.game, sq)
         IN  IF piece # Undefined /\ piece[1] = GameTurn(s.game)
             THEN showLegalMoves(
                      highlightSelected([s EXCEPT !.selectedSquare = Some(sq)], sq),
                      sq)
             ELSE s

onSquareClick(s, sq) ==
    IF s.isEditMode THEN s
    ELSE IF s.selectedSquare # Undefined
    THEN LET move == GameMove(s.game, Val(s.selectedSquare), sq)
             piece == GameGet(s.game, sq)
         IN  IF move # Undefined
             THEN LET s1 == BoardPosition([s EXCEPT !.game = Val(move)],
                                          GameFen(Val(move)))
                  IN  notifyPositionChange(
                          removeHighlights([s1 EXCEPT !.selectedSquare = Undefined]))
             ELSE IF piece # Undefined /\ piece[1] = GameTurn(s.game)
             THEN showLegalMoves(
                      highlightSelected(
                          removeHighlights([s EXCEPT !.selectedSquare = Some(sq)]),
                          sq),
                      sq)
             ELSE removeHighlights([s EXCEPT !.selectedSquare = Undefined])
    ELSE LET piece == GameGet(s.game, sq)
         IN  IF piece # Undefined /\ piece[1] = GameTurn(s.game)
             THEN showLegalMoves(
                      highlightSelected([s EXCEPT !.selectedSquare = Some(sq)], sq),
                      sq)
             ELSE s

\* The 'dragstart' listener of a spare piece; in play mode the drag is
\* prevented.
spareDragStart(s, piece) ==
    IF ~s.isEditMode THEN s ELSE [s EXCEPT !.selectedPiece = Some(piece)]

\* The 'drop' listener of the board element, for a drop on the square sq.
spareDrop(s, sq) ==
    IF ~s.isEditMode \/ s.selectedPiece = Undefined THEN s
    ELSE LET s1 == [s EXCEPT !.board[sq] = Val(s.selectedPiece)]
             s2 == notifyPositionChange(syncGameFromBoard(s1))
         IN  [s2 EXCEPT !.selectedPiece = Undefined]

\* One 'change' listener that setEditMode(true) added to #selectTurn.
turnListener(s) == notifyPositionChange(syncGameFromBoard(s))

RECURSIVE RunTurnListeners(_, _)
RunTurnListeners(s, n) ==
    IF n = 0 THEN s ELSE RunTurnListeners(turnListener(s), n - 1)

setEditMode(s, enabled) ==
    IF enabled
    THEN [s EXCEPT !.isEditMode = TRUE, !.editListeners = @ + 1]
    ELSE [s EXCEPT !.isEditMode = FALSE]

getEditMode(s) == s.isEditMode

\* reset that does not notify.
resetSilent(s) ==
    removeHighlights([s EXCEPT !.game = NewGame, !.board = StartPosition,
                               !.selectedSquare = Undefined])

reset(s) ==
    notifyPositionChange(
        removeHighlights([s EXCEPT !.game = NewGame, !.board = StartPosition,
                                   !.selectedSquare = Undefined]))

clear(s) ==
    notifyPositionChange(
        removeHighlights([s EXCEPT !.game = ClearedGame, !.board = EmptyPosition,
                                   !.selectedSquare = Undefined]))

\* loadFen that announces the position even when the loader rejects.
loadFenNotifies(s, fen) ==
    LET loaded == FenDecode(fen)
    IN  IF IsDefined(loaded)
        THEN LET s1 == [s EXCEPT !.game = Val(loaded)]
             IN  Result(notifyPositionChange(BoardPosition(s1, GameFen(s1.game))), TRUE)
        ELSE Result(notifyPositionChange(s), FALSE)

loadFen(s, fen) ==
    LET loaded == FenDecode(fen)
    IN  IF IsDefined(loaded)
        THEN LET s1 == [s EXCEPT !.game = Val(loaded)]
             IN  Result(notifyPositionChange(BoardPosition(s1, GameFen(s1.game))), TRUE)
        ELSE Result(s, FALSE)

getFen(s) == GameFen(s.game)

\* The widget draws its squares anew (chessboard.js drawBoard): the new
\* square elements carry no highlight class.  Selection, a drag under way
\* and the position are not the widget's squares and stay.
redraw(s) == [s EXCEPT !.hlSelected = {}, !.hlSquares = {}]

\* Board.flip(): the widget turns the board and draws it anew.  The square
\* a pointer event names does not depend on the side at the bottom:
\* getSquareFromEvent (612-647) reads the orientation, and the widget knows
\* the square of the element pressed.
flip(s) ==
    redraw([s EXCEPT !.orientation = IF @ = "white" THEN "black" ELSE "white"])

\* The window's 'resize' listener: board.resize() draws the board anew.
resize(s) == redraw(s)

highlightMove(s, from, to) ==
    highlightSquare(highlightSquare(removeHighlights(s), from), to)

\* The square whose element carries the class 'square-' + name.
SquareNamed(name) ==
    CHOOSE sq \in Squares :
        /\ <<"a", "b", "c", "d", "e", "f", "g", "h">>[sq[1]] = SubSeq(name, 1, 1)
        /\ <<"1", "2", "3", "4", "5", "6", "7", "8">>[sq[2]] = SubSeq(name, 2, 2)

\* ui.js updateBestMoves: the ranks of the list that show a move, each with
\* the first move of its line as data-uci.
BestMoveItems(s) ==
    IF s.display = Undefined THEN {}
    ELSE LET lines == Val(s.display).lines
         IN  {i \in (1..3) \cap DOMAIN lines :
                 IsDefined(lines[i].pv) /\ Len(Val(lines[i].pv)) > 0}

\* The 'mouseenter' listener of the list item of rank i.
itemMouseEnter(s, i) ==
    LET uci == Val(Val(s.display).lines[i].pv)[1]
    IN  IF Len(uci) >= 4
        THEN highlightMove(s, SquareNamed(SubSeq(uci, 1, 2)),
                              SquareNamed(SubSeq(uci, 3, 4)))
        ELSE s

----------------------------------------------------------------------------
(* The widget's gestures (chessboard.js) and the board element's own       *)
(* pointer listener.                                                       *)

\* Pointer down on the square sq, by the mouse or by a touch of one finger
\* (touches = 1) or of several: the widget starts to drag the piece it
\* shows there unless onDragStart refuses.  The 'mousedown' listener of the
\* board element then runs handleInteraction, hence onSquareClick; its
\* 'touchstart' listener does so for a touch of one finger only.
pointerDown(s, sq, touches) ==
    LET piece == s.board[sq]
        r == IF piece # Undefined THEN onDragStart(s, sq, piece) ELSE Result(s, FALSE)
        s1 == IF r.ret
              THEN [r.st EXCEPT !.dragging = Some([source |-> sq, piece |-> piece])]
              ELSE r.st
    IN  IF touches = 1 THEN onSquareClick(s1, sq) ELSE s1

\* Pointer up over target while a piece is dragged: the widget calls
\* onDrop, then snaps the piece back, trashes it or drops it.
pointerUp(s, target) ==
    LET d == Val(s.dragging)
        r == onDrop([s EXCEPT !.dragging = Undefined], d.source, target, d.piece)
        action == IF r.ret \in {"snapback", "trash"} THEN r.ret
                  ELSE IF target = Offboard THEN "snapback" ELSE "drop"
    IN  CASE action = "snapback" -> r.st
          [] action = "trash" -> [r.st EXCEPT !.board[d.source] = Undefined]
          [] action = "drop" ->
                [r.st EXCEPT !.board = [@ EXCEPT ![d.source] = Undefined,
                                                 ![target] = d.piece],
                             !.snapPending = TRUE]

----------------------------------------------------------------------------
(* The coordinator (app.js).                                               *)

resetAnalysis(s) == [s EXCEPT !.display = Undefined]

stopAnalysis(s) == stop([s EXCEPT !.appIsAnalyzing = FALSE])

\* startAnalysis that raises the coordinator's flag before asking whether
\* the engine is ready.
startAnalysisEager(s) ==
    LET s1 == IF getEditMode(s) THEN setEditMode(s, FALSE) ELSE s
        s2 == [s1 EXCEPT !.appIsAnalyzing = TRUE]
    IN  IF ~ready(s2) THEN s2
        ELSE analyze(resetAnalysis(s2), getFen(s2))

startAnalysis(s) ==
    LET s1 == IF getEditMode(s) THEN setEditMode(s, FALSE) ELSE s
    IN  IF ~ready(s1) THEN s1
        ELSE analyze(resetAnalysis([s1 EXCEPT !.appIsAnalyzing = TRUE]), getFen(s1))

\* The edit button's listener without the stop of a running analysis.
clickEditKeepsAnalysis(s) == setEditMode(s, ~getEditMode(s))

clickEdit(s) ==
    LET newEditMode == ~getEditMode(s)
        s1 == setEditMode(s, newEditMode)
    IN  IF newEditMode /\ s1.appIsAnalyzing THEN stopAnalysis(s1) ELSE s1

clickClose(s) == setEditMode(s, FALSE)

clickReset(s) ==
    LET s1 == resetAnalysis(reset(s))
    IN  IF s1.appIsAnalyzing THEN stopAnalysis(s1) ELSE s1

clickClear(s) ==
    LET s1 == resetAnalysis(clear(s))
    IN  IF s1.appIsAnalyzing THEN stopAnalysis(s1) ELSE s1

clickAnalyze(s) ==
    IF s.appIsAnalyzing THEN stopAnalysis(s) ELSE startAnalysis(s)

clickLoadFen(s, fen) ==
    IF fen = <<>> THEN s
    ELSE LET r == loadFen(s, fen)
         IN  IF ~r.ret THEN r.st
             ELSE IF r.st.appIsAnalyzing THEN analyze(r.st, fen) ELSE r.st

keyEscape(s) ==
    LET s1 == IF s.appIsAnalyzing THEN stopAnalysis(s) ELSE s
    IN  IF getEditMode(s1) THEN setEditMode(s1, FALSE) ELSE s1

\* A 'change' of #selectTurn to the value v: the listeners the Board added
\* so far run, in edit mode or not (the coordinator's own listener only
\* updates the status line).
selectTurnChange(s, v) ==
    RunTurnListeners([s EXCEPT !.selectTurn = v], s.editListeners)

----------------------------------------------------------------------------
(* The Stockfish worker: a UCI engine that answers the commands it reads   *)
(* in order and, while searching, reports lines for its position.          *)

LineUciOk == <<"uciok">>
LineReadyOk == <<"readyok">>
LineBestMove == <<"bestmove", "e2e4">>
LineCurrMove == <<"info", "depth", "1", "currmove", "e2e4">>

WhiteLines ==
    { <<"info", "depth", "1", "multipv", "1", "score", "cp", "35",
        "nodes", "10", "time", "5", "pv", "e2e4", "e7e5">>,
      <<"info", "depth", "1", "multipv", "2", "score", "cp", "20",
        "nodes", "10", "time", "5", "pv", "d2d4">>,
      <<"info", "depth", "2", "multipv", "1", "score", "mate", "3",
        "nodes", "20", "time", "10", "pv", "e2e4">> }

BlackLines ==
    { <<"info", "depth", "1", "multipv", "1", "score", "cp", "-30",
        "nodes", "10", "time", "5", "pv", "e7e5">>,
      <<"info", "depth", "1", "multipv", "2", "score", "mate", "-3",
        "nodes", "10", "time", "5", "pv", "d7d5">> }

\* The lines a search of the position fen reports: principal variations
\* start with a move of the side to move.
SfInfoLines(fen) ==
    {LineCurrMove} \cup (IF FenTurn(fen) = "w" THEN WhiteLines ELSE BlackLines)

SfCurrentFen(s) == IF IsDefined(s.sfPos) THEN Val(s.sfPos) ELSE StartFen

SfPost(s, ln) == [s EXCEPT !.outQ = Append(@, ln)]

\* The worker reads the oldest posted command.
SfRead(s) ==
    LET command == Head(s.cmdQ)
        s1 == [s EXCEPT !.cmdQ = Tail(@)]
    IN  CASE command = CmdUci -> SfPost(s1, LineUciOk)
          [] command = CmdIsReady -> SfPost(s1, LineReadyOk)
          [] command = CmdGo -> [s1 EXCEPT !.sfSearching = TRUE]
          [] command = CmdStop ->
                IF s1.sfSearching
                THEN SfPost([s1 EXCEPT !.sfSearching = FALSE], LineBestMove)
                ELSE s1
          [] Len(command) = 2 -> [s1 EXCEPT !.sfPos = Some(command[2])]
          [] OTHER -> s1

----------------------------------------------------------------------------
(* The state as one record, and the actions.                               *)

Cur ==
    [worker |-> worker, isReady |-> isReady, isAnalyzing |-> isAnalyzing,
     analysisLines |-> analysisLines, sent |-> sent, cmdQ |-> cmdQ,
     outQ |-> outQ, sfPos |-> sfPos, sfSearching |-> sfSearching,
     board |-> board, game |-> game, isEditMode |-> isEditMode,
     selectedPiece |-> selectedPiece, selectedSquare |-> selectedSquare,
     hlSelected |-> hlSelected, hlSquares |-> hlSquares,
     orientation |-> orientation,
     editListeners |-> editListeners, selectTurn |-> selectTurn,
     syncTimers |-> syncTimers, snapPending |-> snapPending,
     dragging |-> dragging,
     appIsAnalyzing |-> appIsAnalyzing, display |-> display,
     fired |-> <<>>]

Commit(s, op) ==
    /\ worker' = s.worker
    /\ isReady' = s.isReady
    /\ isAnalyzing' = s.isAnalyzing
    /\ analysisLines' = s.analysisLines
    /\ sent' = s.sent
    /\ cmdQ' = s.cmdQ
    /\ outQ' = s.outQ
    /\ sfPos' = s.sfPos
    /\ sfSearching' = s.sfSearching
    /\ board' = s.board
    /\ game' = s.game
    /\ isEditMode' = s.isEditMode
    /\ selectedPiece' = s.selectedPiece
    /\ selectedSquare' = s.selectedSquare
    /\ hlSelected' = s.hlSelected
    /\ hlSquares' = s.hlSquares
    /\ orientation' = s.orientation
    /\ editListeners' = s.editListeners
    /\ selectTurn' = s.selectTurn
    /\ syncTimers' = s.syncTimers
    /\ snapPending' = s.snapPending
    /\ dragging' = s.dragging
    /\ appIsAnalyzing' = s.appIsAnalyzing
    /\ display' = s.display
    /\ fired' = s.fired
    /\ lastOp' = op

\* The Board and the coordinator as their modules leave them when loaded
\* and initialised: a new game on a board in play mode.
BoardInitState ==
    /\ board = StartPosition
    /\ game = NewGame
    /\ isEditMode = FALSE
    /\ selectedPiece = Undefined
    /\ selectedSquare = Undefined
    /\ hlSelected = {}
    /\ hlSquares = {}
    /\ orientation = "white"
    /\ editListeners = 0
    /\ selectTurn = "w"
    /\ syncTimers = 0
    /\ snapPending = FALSE
    /\ dragging = Undefined
    /\ edits = 0
    /\ appIsAnalyzing = FALSE
    /\ display = Undefined

EngineInitState ==
    /\ worker = FALSE
    /\ isReady = FALSE
    /\ isAnalyzing = FALSE
    /\ analysisLines = EmptyTable
    /\ sent = <<>>
    /\ cmdQ = <<>>
    /\ outQ = <<>>
    /\ sfPos = Undefined
    /\ sfSearching = FALSE
    /\ inits = 0
    /\ fired = <<>>
    /\ lastOp = "load"
    /\ BoardInitState

\* The positions the caller asks the session to analyse.
AnalyzeFens ==
    {StartFen, positionToFen(MovePiece(StartPosition, e2, e4), "b")}

CallInit ==
    /\ ~worker
    /\ inits < MaxInits
    /\ inits' = inits + 1
    /\ UNCHANGED edits
    /\ \E spawned \in BOOLEAN : Commit(EngineInit(Cur, spawned), "init")

CallAnalyze ==
    /\ Len(sent) < MaxSent
    /\ UNCHANGED <<inits, edits>>
    /\ \E fen \in AnalyzeFens : Commit(analyze(Cur, fen), "analyze")

CallStop ==
    /\ Len(sent) < MaxSent
    /\ UNCHANGED <<inits, edits>>
    /\ Commit(stop(Cur), "stop")

CallDestroy ==
    /\ UNCHANGED <<inits, edits>>
    /\ Commit(destroy(Cur), "destroy")

SfStep ==
    /\ cmdQ # <<>>
    /\ Len(outQ) < MaxOutQ
    /\ UNCHANGED <<inits, edits>>
    /\ Commit(SfRead(Cur), "sfRead")

SfEmit ==
    /\ sfSearching
    /\ Len(outQ) < MaxOutQ
    /\ UNCHANGED <<inits, edits>>
    /\ \E ln \in SfInfoLines(SfCurrentFen(Cur)) : Commit(SfPost(Cur, ln), "sfEmit")

Deliver ==
    /\ outQ # <<>>
    /\ UNCHANGED <<inits, edits>>
    /\ Commit(handleMessage([Cur EXCEPT !.outQ = Tail(@)], Head(outQ)), "deliver")

WorkerError ==
    /\ worker
    /\ UNCHANGED <<inits, edits>>
    /\ Commit(handleError(Cur), "error")

EngineNext ==
    \/ CallInit
    \/ CallAnalyze
    \/ CallStop
    \/ CallDestroy
    \/ SfStep
    \/ SfEmit
    \/ Deliver
    \/ WorkerError

\* The Engine module driven through its public interface by any caller.
EngineSpec == EngineInitState /\ [][EngineNext]_vars

\* The Engine module with a worker whose response lines arrive in any
\* order: besides answering the commands it reads, the worker may post
\* 'uciok' or 'readyok' at any time.
ResponsePosts ==
    /\ worker
    /\ Len(outQ) < MaxOutQ
    /\ Len(sent) < MaxSent
    /\ UNCHANGED <<inits, edits>>
    /\ \E ln \in {LineUciOk, LineReadyOk} : Commit(SfPost(Cur, ln), "post")

ArrivalSpec ==
    EngineInitState /\ [][CallInit \/ CallAnalyze \/ SfStep \/ ResponsePosts \/ Deliver]_vars

----------------------------------------------------------------------------
(* The session fed with arbitrary lines: a ready session and a worker that *)
(* may post any line of AnyLines, well formed or not.                      *)

MalformedLines ==
    { \* no score field
      <<"info", "depth", "1", "multipv", "1", "pv", "e2e4">>,
      \* no pv field ('multipv' contains 'pv')
      <<"info", "depth", "1", "multipv", "1", "score", "cp", "35">>,
      \* pv with an empty move list
      <<"info", "depth", "1", "multipv", "1", "score", "cp", "35", "pv">>,
      \* no multipv token
      <<"info", "depth", "1", "score", "cp", "35", "pv", "e2e4">>,
      \* rank 0
      <<"info", "depth", "1", "multipv", "0", "score", "cp", "35", "pv", "e2e4">>,
      \* a score of a type that is neither cp nor mate
      <<"info", "depth", "1", "multipv", "3", "score", "xx", "5", "pv", "e2e4">>,
      \* the score after the pv field
      <<"info", "depth", "1", "multipv", "3", "pv", "e2e4", "score", "cp", "35">> }

WellFormedLines ==
    WhiteLines \cup BlackLines \cup
    { <<"info", "depth", "2", "multipv", "3", "score", "cp", "100",
        "nodes", "20", "time", "10", "pv", "d2d4">> }

AnyLines ==
    WellFormedLines \cup MalformedLines \cup
    {LineCurrMove, LineBestMove, LineReadyOk}

LineInitState ==
    /\ worker = TRUE
    /\ isReady = TRUE
    /\ isAnalyzing = FALSE
    /\ analysisLines = EmptyTable
    /\ sent = <<CmdUci, CmdMultiPV, CmdThreads, CmdIsReady>>
    /\ cmdQ = <<>>
    /\ outQ = <<>>
    /\ sfPos = Undefined
    /\ sfSearching = FALSE
    /\ inits = 1
    /\ fired = <<>>
    /\ lastOp = "deliver"
    /\ BoardInitState

WorkerPosts ==
    /\ Len(outQ) < MaxOutQ
    /\ UNCHANGED <<inits, edits>>
    /\ \E ln \in AnyLines : Commit(SfPost(Cur, ln), "post")

LineNext ==
    \/ WorkerPosts
    \/ Deliver

LineSpec == LineInitState /\ [][LineNext]_vars

----------------------------------------------------------------------------
(* The whole program: the page after app.js init(), the user's gestures,   *)
(* clicks and keys, the timers and the worker.                             *)

TapSquares == {e2, e4, e7, f1}
DropTargets == {e2, e4, Offboard}
HoverSquares == {e2}
SpareSquares == {e4}
SparePieces == {<<"w", "Q">>}
\* The pointers of a press: 1 for the mouse or one finger, 2 for two fingers.
Touches == {1, 2}

\* Two bare kings, on e2 and e7, white to move.
KingsFen ==
    positionToFen([sq \in Squares |->
                      IF sq = e2 THEN <<"w", "K">>
                      ELSE IF sq = e7 THEN <<"b", "K">> ELSE Undefined], "w")
InvalidFen == <<"8", "/", "8", " ", "w", " ", "-", " ", "-", " ", "0", " ", "1">>

\* The texts the user loads: a position, a text the loader rejects, and the
\* empty input.
FenInputs == {KingsFen, InvalidFen, <<>>}

AppInitState ==
    /\ BoardInitState
    /\ \E spawned \in BOOLEAN :
          /\ worker = spawned
          /\ sent = IF spawned THEN <<CmdUci>> ELSE <<>>
          /\ cmdQ = IF spawned THEN <<CmdUci>> ELSE <<>>
          /\ fired = IF spawned THEN <<>>
                     ELSE <<[cb |-> "onError", arg |-> <<"Impossible de charger Stockfish">>]>>
    /\ isReady = FALSE
    /\ isAnalyzing = FALSE
    /\ analysisLines = EmptyTable
    /\ outQ = <<>>
    /\ sfPos = Undefined
    /\ sfSearching = FALSE
    /\ inits = 1
    /\ lastOp = "init"

\* Room in the log of sent commands for what a handler may send.
CanSend == Len(sent) < MaxSent
Quiet == ~appIsAnalyzing \/ CanSend
\* The pointer holds no piece of the board: while it drags one, it presses
\* no other piece and the widget reports no square it enters or leaves.
\* Keys, focused controls and the list of best moves stay live during a
\* drag, and a spare piece released outside the board leaves selectedPiece
\* set without any event.
NoGesture == dragging = Undefined

PointerDownWith(sq, touches) ==
    /\ NoGesture
    /\ Quiet
    /\ isEditMode => edits < MaxEdits /\ syncTimers < MaxTimers
    /\ UNCHANGED <<inits, edits>>
    /\ Commit(pointerDown(Cur, sq, touches),
              IF touches = 1 THEN "pointerDown" ELSE "touchDown")

PointerDownOn(sq) == \E touches \in Touches : PointerDownWith(sq, touches)

PointerDown == \E sq \in TapSquares : PointerDownOn(sq)

PointerUpOver(target) ==
    /\ dragging # Undefined
    /\ Quiet
    /\ edits' = IF isEditMode THEN edits + 1 ELSE edits
    /\ UNCHANGED inits
    /\ Commit(pointerUp(Cur, target), "pointerUp")

PointerUp == \E target \in DropTargets : PointerUpOver(target)

SnapEnd ==
    /\ snapPending
    /\ UNCHANGED <<inits, edits>>
    /\ Commit([onSnapEnd(Cur) EXCEPT !.snapPending = FALSE], "snapEnd")

SyncTimer ==
    /\ syncTimers > 0
    /\ Quiet
    /\ UNCHANGED <<inits, edits>>
    /\ Commit(syncTimerFired(Cur), "syncTimer")

MouseOver ==
    /\ NoGesture
    /\ UNCHANGED <<inits, edits>>
    /\ \E sq \in HoverSquares : Commit(onMouseoverSquare(Cur, sq), "mouseOver")

MouseOut ==
    /\ NoGesture
    /\ UNCHANGED <<inits, edits>>
    /\ \E sq \in HoverSquares : Commit(onMouseoutSquare(Cur, sq), "mouseOut")

SpareDragStart ==
    /\ NoGesture
    /\ isEditMode
    /\ edits < MaxEdits
    /\ UNCHANGED <<inits, edits>>
    /\ \E piece \in SparePieces : Commit(spareDragStart(Cur, piece), "spareDragStart")

SpareDrop ==
    /\ selectedPiece # Undefined
    /\ Quiet
    /\ isEditMode => edits < MaxEdits
    /\ edits' = IF isEditMode THEN edits + 1 ELSE edits
    /\ UNCHANGED inits
    /\ \E sq \in SpareSquares : Commit(spareDrop(Cur, sq), "spareDrop")

SelectTurnChange ==
    /\ Quiet
    /\ UNCHANGED <<inits, edits>>
    /\ \E v \in Colors \ {selectTurn} : Commit(selectTurnChange(Cur, v), "selectTurn")

ClickEdit ==
    /\ CanSend
    /\ ~isEditMode => editListeners < MaxListeners
    /\ UNCHANGED <<inits, edits>>
    /\ Commit(clickEdit(Cur), "clickEdit")

ClickClose ==
    /\ isEditMode
    /\ UNCHANGED <<inits, edits>>
    /\ Commit(clickClose(Cur), "clickClose")

ClickReset ==
    /\ Quiet
    /\ UNCHANGED <<inits, edits>>
    /\ Commit(clickReset(Cur), "clickReset")

ClickClear ==
    /\ Quiet
    /\ UNCHANGED <<inits, edits>>
    /\ Commit(clickClear(Cur), "clickClear")

ClickAnalyze ==
    /\ CanSend
    /\ UNCHANGED <<inits, edits>>
    /\ Commit(clickAnalyze(Cur), "clickAnalyze")

ClickLoadFen ==
    /\ Quiet
    /\ UNCHANGED <<inits, edits>>
    /\ \E fen \in FenInputs : Commit(clickLoadFen(Cur, fen), "clickLoadFen")

KeyEscape ==
    /\ CanSend
    /\ UNCHANGED <<inits, edits>>
    /\ Commit(keyEscape(Cur), "keyEscape")

\* The flip button, or the key 'f' outside a text input or a selector.
ClickFlip ==
    /\ UNCHANGED <<inits, edits>>
    /\ Commit(flip(Cur), "flip")

WindowResize ==
    /\ UNCHANGED <<inits, edits>>
    /\ Commit(resize(Cur), "resize")

\* The pointer over the list of best moves.
ItemEnter ==
    /\ UNCHANGED <<inits, edits>>
    /\ \E i \in BestMoveItems(Cur) : Commit(itemMouseEnter(Cur, i), "itemEnter")

ItemLeave ==
    /\ BestMoveItems(Cur) # {}
    /\ UNCHANGED <<inits, edits>>
    /\ Commit(removeHighlights(Cur), "itemLeave")

Next ==
    \/ PointerDown
    \/ PointerUp
    \/ SnapEnd
    \/ SyncTimer
    \/ MouseOver
    \/ MouseOut
    \/ SpareDragStart
    \/ SpareDrop
    \/ SelectTurnChange
    \/ ClickEdit
    \/ ClickClose
    \/ ClickReset
    \/ ClickClear
    \/ ClickAnalyze
    \/ ClickLoadFen
    \/ KeyEscape
    \/ ClickFlip
    \/ WindowResize
    \/ ItemEnter
    \/ ItemLeave
    \/ SfStep
    \/ SfEmit
    \/ Deliver
    \/ WorkerError

Spec == AppInitState /\ [][Next]_vars

\* The Board and the coordinator on a page whose engine failed to load:
\* taps, drags and hovers of four squares, the spare pieces, the mode
\* buttons and a window that may be resized, in any order (a button may be
\* reached by a key while a piece is dragged).  The other buttons are those
\* of GestureSpec, the selector is that of SelectorSpec.
BoardInit == AppInitState /\ ~worker

BoardNext ==
    \/ PointerDown
    \/ PointerUp
    \/ SnapEnd
    \/ SyncTimer
    \/ MouseOver
    \/ MouseOut
    \/ SpareDragStart
    \/ SpareDrop
    \/ ClickEdit
    \/ ClickClose
    \/ WindowResize

BoardSpec == BoardInit /\ [][BoardNext]_vars

\* The editor with a side-to-move selector that may hold any value: the
\* Board reads the value of the element as it is.  The king's pawn is the
\* piece tapped and dragged.
TurnValues == Colors \cup {"x"}

SelectTurnAny ==
    /\ Quiet
    /\ UNCHANGED <<inits, edits>>
    /\ \E v \in TurnValues \ {selectTurn} : Commit(selectTurnChange(Cur, v), "selectTurn")

EditNext ==
    \/ ClickEdit
    \/ ClickClose
    \/ PointerDownOn(e2)
    \/ PointerUp
    \/ SnapEnd
    \/ SyncTimer
    \/ SpareDragStart
    \/ SpareDrop
    \/ SelectTurnAny

EditSpec == BoardInit /\ [][EditNext]_vars

\* The editor showing any of a family of boards: the empty board or the
\* initial one, with a white king, a black queen or nothing on each of five
\* squares (corners, and two neighbours in the middle), and either side to
\* move; the rules engine holds what the last synchronisation loaded.  The
\* selector is then changed, which synthesizes the text anew.
FenPositions ==
    {[sq \in Squares |-> IF sq \in DOMAIN over THEN over[sq] ELSE base[sq]] :
        base \in {EmptyPosition, StartPosition},
        over \in [{<<1, 8>>, <<8, 8>>, <<4, 5>>, <<5, 5>>, <<1, 1>>} ->
                    {Undefined, <<"w", "K">>, <<"b", "Q">>}]}

FenInit ==
    /\ board \in FenPositions
    /\ selectTurn \in Colors
    /\ game = Val(FenDecode(positionToFen(board, selectTurn)))
    /\ isEditMode = TRUE
    /\ editListeners = 1
    /\ edits = 1
    /\ selectedPiece = Undefined
    /\ selectedSquare = Undefined
    /\ hlSelected = {}
    /\ hlSquares = {}
    /\ orientation = "white"
    /\ syncTimers = 0
    /\ snapPending = FALSE
    /\ dragging = Undefined
    /\ appIsAnalyzing = FALSE
    /\ display = Undefined
    /\ worker = FALSE
    /\ isReady = FALSE
    /\ isAnalyzing = FALSE
    /\ analysisLines = EmptyTable
    /\ sent = <<>>
    /\ cmdQ = <<>>
    /\ outQ = <<>>
    /\ sfPos = Undefined
    /\ sfSearching = FALSE
    /\ inits = 1
    /\ fired = <<>>
    /\ lastOp = "spareDrop"

FenSpec == FenInit /\ [][SelectTurnChange]_vars

\* The editor entered and left several times: every entry adds a listener
\* to the side-to-move selector, and none is removed on leaving.  The
\* selector changes in either mode: its listeners do not test the mode.
EnterEdit ==
    /\ ~isEditMode
    /\ editListeners < MaxEntries
    /\ UNCHANGED <<inits, edits>>
    /\ Commit(clickEdit(Cur), "clickEdit")

SelectorNext ==
    \/ EnterEdit
    \/ ClickClose
    \/ SelectTurnChange
    \/ SpareDragStart
    \/ SpareDrop
    \/ PointerDownOn(e2)
    \/ PointerUp
    \/ SnapEnd
    \/ SyncTimer

SelectorSpec == BoardInit /\ [][SelectorNext]_vars

\* The coordinator and the Engine on a page whose engine loads.  The worker
\* answers the handshake; once the session is ready its steps no longer
\* bear on what the session sends (handleMessage sends on 'uciok' only) and
\* are left out.
AnalysisInit == AppInitState /\ worker

WorkerHandshake == ~isReady /\ (SfStep \/ Deliver)

\* Taps while the analysis is watched: the king's pawn.
AnalysisPointerDown == PointerDownOn(e2)

AnalysisNext ==
    \/ ClickAnalyze
    \/ AnalysisPointerDown
    \/ PointerUp
    \/ SnapEnd
    \/ SyncTimer
    \/ ClickEdit
    \/ ClickReset
    \/ ClickClear
    \/ ClickLoadFen
    \/ KeyEscape
    \/ WorkerHandshake

AnalysisSpec == AnalysisInit /\ [][AnalysisNext]_vars

\* The page while texts are loaded: the load button, the analyse button,
\* Escape, the flip button, and the king's pawn tapped or dragged.
LoadNext ==
    \/ ClickLoadFen
    \/ ClickAnalyze
    \/ KeyEscape
    \/ AnalysisPointerDown
    \/ PointerUp
    \/ SnapEnd
    \/ WorkerHandshake
    \/ ClickFlip

LoadSpec == AnalysisInit /\ [][LoadNext]_vars

\* The page while the analysis is watched: a ready session, a worker that
\* reports lines while it searches, the analyse button, taps and drags of
\* the king's bishop, and the pointer over the board and over the
\* list of best moves.
WatchNext ==
    \/ ClickAnalyze
    \/ SfStep
    \/ SfEmit
    \/ Deliver
    \/ PointerDownOn(f1)
    \/ PointerUp
    \/ MouseOver
    \/ MouseOut
    \/ ItemEnter
    \/ ItemLeave

WatchSpec == LineInitState /\ [][WatchNext]_vars

\* The page fed by a worker that may also report a line without a usable
\* score, while the analyse button starts and stops the analysis.
FeedLines ==
    WhiteLines \cup
    { <<"info", "depth", "1", "multipv", "3", "score", "xx", "5", "pv", "e2e4">> }

FeedPosts ==
    /\ Len(outQ) < MaxOutQ
    /\ UNCHANGED <<inits, edits>>
    /\ \E ln \in FeedLines : Commit(SfPost(Cur, ln), "post")

FeedNext ==
    \/ FeedPosts
    \/ Deliver
    \/ ClickAnalyze

FeedSpec == LineInitState /\ [][FeedNext]_vars

\* The page while gestures are under way: keys and clicks arrive while a
\* piece is dragged with the mouse, and after a spare piece was released
\* outside the board (no drop event follows, the piece stays chosen).  The
\* squares pressed are those of the king's pawn and of its double step.
GestureNext ==
    \/ PointerDownOn(e2)
    \/ PointerDownOn(e4)
    \/ PointerUp
    \/ SnapEnd
    \/ SyncTimer
    \/ SpareDragStart
    \/ SpareDrop
    \/ ClickEdit
    \/ ClickClose
    \/ ClickReset
    \/ ClickClear
    \/ ClickAnalyze
    \/ ClickLoadFen
    \/ KeyEscape

GestureSpec == BoardInit /\ [][GestureNext]_vars

----------------------------------------------------------------------------
(* Vocabulary of the properties.                                           *)

\* The callbacks of kind cb among those the last step invoked.
Fired(cb) == {i \in 1..Len(fired) : fired[i].cb = cb}

IsPositionCmd(command) == Len(command) = 2

\* The index of the last command of sent satisfying the test, 0 if none.
LastPositionIdx == 
    LET idx == {i \in 1..Len(sent) : IsPositionCmd(sent[i])}
    IN  IF idx = {} THEN 0 ELSE CHOOSE i \in idx : \A j \in idx : j <= i

LastUciIdx ==
    LET idx == {i \in 1..Len(sent) : sent[i] = CmdUci}
    IN  IF idx = {} THEN 0 ELSE CHOOSE i \in idx : \A j \in idx : j <= i

\* The entries the table can hold for a search of the position fen.
EntriesFor(fen) == {ParseInfo(ln) : ln \in SfInfoLines(fen)}

\* Since the last 'uci', the two configuration commands were sent, in order.
ConfigSent(log) ==
    \E u, m, t \in 1..Len(log) :
        /\ u < m /\ m < t
        /\ log[u] = CmdUci /\ log[m] = CmdMultiPV /\ log[t] = CmdThreads
        /\ \A j \in (u + 1)..Len(log) : log[j] # CmdUci

----------------------------------------------------------------------------
(* C1..C10.                                                                *)

\* C1: once the table holds a line after the latest analyze(P), every entry
\* of the table is a line the engine produced for P (the table is emptied by
\* analyze, so a non-empty table is one an info line was processed into
\* after the latest analyze).
C1_NoStaleLine ==
    LastPositionIdx > 0 =>
        \A r \in DOMAIN analysisLines :
            analysisLines[r] \in EntriesFor(sent[LastPositionIdx][2])

\* The position-changed callbacks the last step invoked.
Notified == Cardinality(Fired("onPositionChange"))

\* C2: every accepted mutation of the position invokes the position-changed
\* callback exactly once: a tap or a drop that makes a legal move, a spare
\* piece placed on a square, reset, clear and a load of an accepted text
\* invoke it once in their own step; an edit-mode drop on a square invokes
\* nothing itself and sets one timer, and each timer invokes it once.
C2_OneNotification ==
    [][/\ (lastOp' \in {"pointerDown", "touchDown", "pointerUp"} /\ game' # game) =>
              Notified' = 1
       /\ (lastOp' = "spareDrop" /\ isEditMode) => Notified' = 1
       /\ lastOp' \in {"clickReset", "clickClear"} => Notified' = 1
       /\ (lastOp' = "clickLoadFen" /\ (game' # game \/ board' # board)) => Notified' = 1
       /\ (isEditMode /\ \E target \in DropTargets \ {Offboard} : PointerUpOver(target)) =>
              Notified' = 0 /\ syncTimers' = syncTimers + 1
       /\ lastOp' = "syncTimer" => Notified' = 1 /\ syncTimers' = syncTimers - 1]_vars

\* C2 witness: the timer of an edit-mode drop on a square has run and
\* invoked the callback once, on a board the drop changed.
C2_Witness ==
    /\ lastOp = "syncTimer"
    /\ Notified = 1
    /\ edits = 1
    /\ board # StartPosition
    /\ game.occ = board

\* C3: whenever the board is in edit mode no square is selected.
C3_EditModeNoSelection == isEditMode => selectedSquare = Undefined

\* C4: right after every change of mode, in either direction, no square is
\* selected and no square carries a highlight.
C4_ModeSwitchClears ==
    [][isEditMode' # isEditMode =>
          /\ selectedSquare' = Undefined
          /\ hlSelected' = {}
          /\ hlSquares' = {}]_vars

\* C5: Engine.analyze while the session is not Ready sends nothing, leaves
\* the rank table and the analyzing flag unchanged, and ready() stays false.
C5_AnalyzeNotReadyNoOp ==
    [][(lastOp' = "analyze" /\ ~isReady) =>
          /\ sent' = sent
          /\ cmdQ' = cmdQ
          /\ analysisLines' = analysisLines
          /\ isAnalyzing' = isAnalyzing
          /\ fired' = <<>>
          /\ ~ready(Cur)']_vars

\* C5 witness: analyze was called on a destroyed session whose table still
\* holds a line.
C5_Witness ==
    /\ lastOp = "analyze"
    /\ ~isReady
    /\ analysisLines # EmptyTable
    /\ LastPositionIdx > 0

\* C6: Engine.analyze(P) while Ready sends 'stop' if the session is
\* Analyzing, then 'position fen P', then 'go infinite', leaves the table
\* empty and the analyzing flag true, and processes no engine line.
C6_AnalyzeSequence ==
    [][(lastOp' = "analyze" /\ isReady) =>
          /\ \E fen \in AnalyzeFens :
                LET cmds == (IF isAnalyzing THEN <<CmdStop>> ELSE <<>>)
                            \o <<CmdPosition(fen), CmdGo>>
                IN  sent' = sent \o cmds /\ cmdQ' = cmdQ \o cmds
          /\ analysisLines' = EmptyTable
          /\ isAnalyzing'
          /\ outQ' = outQ
          /\ fired' = <<>>]_vars

\* C6 witness: an analysis was restarted while one was running and the
\* table held a line of it.
C6_Witness ==
    /\ lastOp = "analyze"
    /\ Len(sent) >= 6
    /\ sent[Len(sent) - 2] = CmdStop
    /\ sent[Len(sent) - 3] = CmdGo
    /\ sent[Len(sent)] = CmdGo
    /\ analysisLines = EmptyTable
    /\ isAnalyzing

\* The indices of the 'go infinite' commands of the log.
GoIdx == {i \in 1..Len(sent) : sent[i] = CmdGo}

\* C7: between any two 'go infinite' commands of the log of sent commands
\* there is a 'stop', whatever the order of the analyze clicks, moves,
\* loads, resets, clears, mode toggles and Escape keys of the run.
C7_StopBetweenGos ==
    \A i, j \in GoIdx :
        i < j => \E k \in (i + 1)..(j - 1) : sent[k] = CmdStop

\* C7 witness: a move made while the analysis was running restarted it:
\* the log holds two 'go infinite', the second for the position after the
\* move.
C7_Witness ==
    /\ Cardinality(GoIdx) = 2
    /\ appIsAnalyzing
    /\ isAnalyzing
    /\ game.occ = MovePiece(StartPosition, e2, e4)
    /\ sent[Len(sent) - 1] = CmdPosition(GameFen(game))

\* C8: Engine.stop sends exactly one 'stop' and clears the analyzing flag
\* when the session is Analyzing, and otherwise sends nothing and changes no
\* state; a second stop right after a stop changes nothing.
C8_StopIdempotent ==
    /\ [](lastOp = "stop" => stop(Cur) = Cur)
    /\ [][lastOp' = "stop" =>
            /\ IF isAnalyzing
               THEN sent' = Append(sent, CmdStop) /\ cmdQ' = Append(cmdQ, CmdStop)
               ELSE sent' = sent /\ cmdQ' = cmdQ
            /\ ~isAnalyzing'
            /\ analysisLines' = analysisLines
            /\ fired' = <<>>
            /\ UNCHANGED <<outQ, sfPos, sfSearching, worker, isReady, inits>>]_vars

\* C8 witness: stop was called on an Analyzing session and sent its 'stop'.
C8_Witness ==
    /\ lastOp = "stop"
    /\ sent # <<>>
    /\ sent[Len(sent)] = CmdStop
    /\ ~isAnalyzing

\* C9: whatever the order in which the response lines of the engine
\* arrive, isReady becomes true, and the engine-ready callback fires, only
\* in the delivery of 'readyok' and only after 'uci' and then both
\* configuration commands were sent; the configuration commands are sent
\* only in the delivery of 'uciok'.
C9_ReadyAfterConfig ==
    /\ [](isReady => ConfigSent(sent))
    /\ [][/\ (isReady' /\ ~isReady) =>
                /\ lastOp' = "deliver"
                /\ Head(outQ) = LineReadyOk
                /\ Fired("onReady")' # {}
          /\ (Fired("onReady")' # {} /\ lastOp' = "deliver") =>
                isReady' /\ ConfigSent(sent')
          /\ (Len(sent') > Len(sent) /\ sent'[Len(sent')] = CmdIsReady) =>
                /\ lastOp' = "deliver"
                /\ Head(outQ) = LineUciOk
                /\ LastUciIdx > 0
                /\ sent' = sent \o <<CmdMultiPV, CmdThreads, CmdIsReady>>]_vars

\* A line carries score data when a 'score' token is followed by cp or mate
\* and a numeral; it carries a rank when a 'multipv' token is followed by a
\* numeral; it carries a pv when a 'pv' token is followed by a move.
HasNumeralAt(ln, i) == ~IsNaN(parseInt(At(ln, i)))
HasScoreData(ln) ==
    \E i \in 1..Len(ln) :
        ln[i] = "score" /\ At(ln, i + 1) \in {Some("cp"), Some("mate")}
                        /\ HasNumeralAt(ln, i + 2)
HasRank(ln) == \E i \in 1..Len(ln) : ln[i] = "multipv" /\ HasNumeralAt(ln, i + 1)
HasPv(ln) == \E i \in 1..Len(ln) : ln[i] = "pv" /\ i < Len(ln)

CompleteEntry(info) ==
    /\ IsDefined(info.multipv)
    /\ IsDefined(info.pv) /\ Len(Val(info.pv)) > 0
    /\ IsDefined(info.score)
    /\ info.scoreType \in {Some("cp"), Some("mate")}

\* C10: a line without score data, without pv or without rank fires no
\* analysis-update event and leaves the table as it is, and every entry of
\* the table has a rank, a non-empty pv and a score tagged cp or mate.
C10_IncompleteLineDropped ==
    [][lastOp' = "deliver" =>
          /\ (~HasScoreData(Head(outQ)) \/ ~HasPv(Head(outQ)) \/ ~HasRank(Head(outQ)))
                => (analysisLines' = analysisLines /\ Fired("onAnalysis")' = {})
          /\ \A r \in DOMAIN analysisLines' : CompleteEntry(analysisLines'[r])]_vars

\* The least index of the token key in a line, and the token after it.
FirstIdx(ln, key) == CHOOSE i \in 1..Len(ln) : ln[i] = key /\ \A j \in 1..(i - 1) : ln[j] # key
FieldOf(ln, key) ==
    IF \E i \in 1..Len(ln) : ln[i] = key
    THEN Some(parseInt(At(ln, FirstIdx(ln, key) + 1)))
    ELSE Undefined

\* A complete line: score data, a rank of 1 or more, and a pv that follows
\* the other fields.
CompleteLine(ln) ==
    /\ startsWithInfo(ln) /\ HasScoreData(ln) /\ HasRank(ln) /\ HasPv(ln)
    /\ Val(FieldOf(ln, "multipv")).num > 0
    /\ \A key \in {"depth", "multipv", "score", "nodes", "time"} :
          \A i \in 1..Len(ln) : ln[i] = key => i < FirstIdx(ln, "pv")

\* C11: the delivery of a complete line of rank r puts that line at rank r
\* of the table and leaves the other ranks as they were, and invokes the
\* analysis-update callback exactly once, with the table as it is after the
\* replacement and the depth, nodes and time of the line; the table holds
\* one entry per rank, the entry of rank k being a line of rank k.
C11_LineReplacesRank ==
    /\ [](\A k \in DOMAIN analysisLines : analysisLines[k].multipv = Some(Num(k)))
    /\ [][(lastOp' = "deliver" /\ CompleteLine(Head(outQ))) =>
            LET ln == Head(outQ)
                r == Val(FieldOf(ln, "multipv")).num
            IN  /\ DOMAIN analysisLines' = DOMAIN analysisLines \cup {r}
                /\ \A k \in DOMAIN analysisLines \ {r} :
                      analysisLines'[k] = analysisLines[k]
                /\ analysisLines'[r].pv =
                      Some(SubSeq(ln, FirstIdx(ln, "pv") + 1, Len(ln)))
                /\ analysisLines'[r].depth = FieldOf(ln, "depth")
                /\ Cardinality(Fired("onAnalysis")') = 1
                /\ \A i \in Fired("onAnalysis")' :
                      /\ fired'[i].arg.lines = analysisLines'
                      /\ fired'[i].arg.depth = FieldOf(ln, "depth")
                      /\ fired'[i].arg.nodes = FieldOf(ln, "nodes")
                      /\ fired'[i].arg.time = FieldOf(ln, "time")]_vars

\* C11 witness: a line of rank 1 and depth 2 has just replaced the entry of
\* rank 1 in a table that also holds ranks 2 and 3, and the one update
\* carries the table.
C11_Witness ==
    /\ lastOp = "deliver"
    /\ DOMAIN analysisLines = {1, 2, 3}
    /\ analysisLines[1].depth = Some(Num(2))
    /\ analysisLines[2].depth = Some(Num(1))
    /\ Cardinality(Fired("onAnalysis")) = 1
    /\ \A i \in Fired("onAnalysis") : fired[i].arg.lines = analysisLines

\* C12: the entry stored for a complete line has the type tag of the line;
\* a cp score is the value of the line divided by 100 (35 gives 7/20, that
\* is 0.35) and a mate score is the value of the line, sign included (-3
\* stays -3); an entry tagged mate therefore differs from every entry
\* tagged cp in its (tag, value) pair.
C12_ScoreNormalized ==
    /\ [](\A j, k \in DOMAIN analysisLines :
            (analysisLines[j].scoreType = Some("mate")
                /\ analysisLines[k].scoreType = Some("cp")) =>
            <<analysisLines[j].scoreType, analysisLines[j].score>> #
            <<analysisLines[k].scoreType, analysisLines[k].score>>)
    /\ [][(lastOp' = "deliver" /\ CompleteLine(Head(outQ))) =>
            LET ln == Head(outQ)
                at == FirstIdx(ln, "score")
                tag == ln[at + 1]
                v == parseInt(At(ln, at + 2))
                e == analysisLines'[Val(FieldOf(ln, "multipv")).num]
            IN  /\ e.scoreType = Some(tag)
                /\ tag = "cp" =>
                      /\ Val(e.score).den > 0
                      /\ Val(e.score).num * 100 = v.num * Val(e.score).den
                /\ (tag = "cp" /\ v.num = 35) =>
                      e.score = Some([num |-> 7, den |-> 20])
                /\ tag = "mate" => e.score = Some(v)]_vars

\* C12 witness: the table holds the cp entry 0.35 at rank 1 and the mate
\* entry -3 at rank 2.
C12_Witness ==
    /\ lastOp = "deliver"
    /\ {1, 2} \subseteq DOMAIN analysisLines
    /\ analysisLines[1].scoreType = Some("cp")
    /\ analysisLines[1].score = Some([num |-> 7, den |-> 20])
    /\ analysisLines[2].scoreType = Some("mate")
    /\ analysisLines[2].score = Some(Num(-3))

\* C13: in play mode with a piece selected, a tap on a legal destination of
\* the selected piece makes the move in the rules engine, shows the
\* resulting position on the board, leaves no square selected and no square
\* highlighted, and invokes the position-changed callback exactly once.
C13_TapLegalDestination ==
    [][\A sq \in TapSquares :
          (/\ ~isEditMode
           /\ lastOp' = "pointerDown"
           /\ selectedSquare # Undefined
           /\ LegalMove(game, Val(selectedSquare), sq)
           /\ PointerDownWith(sq, 1)) =>
              /\ game' = Val(GameMove(game, Val(selectedSquare), sq))
              /\ board' = game'.occ
              /\ selectedSquare' = Undefined
              /\ hlSelected' = {} /\ hlSquares' = {}
              /\ Notified' = 1]_vars

\* The square sq holds a piece of the side to move in the rules engine.
OwnPieceOn(sq) == GameGet(game, sq) # Undefined /\ GameGet(game, sq)[1] = GameTurn(game)

\* C14: in play mode with a piece selected, a tap on another square that
\* holds a piece of the side to move and is no legal destination of the
\* selected piece selects that square and highlights it and its legal
\* destinations, and only them; the position and the board stay as they
\* are and the position-changed callback is not invoked.
C14_TapOwnPieceSwitches ==
    [][\A sq \in TapSquares :
          (/\ ~isEditMode
           /\ lastOp' = "pointerDown"
           /\ selectedSquare # Undefined
           /\ Val(selectedSquare) # sq
           /\ OwnPieceOn(sq)
           /\ ~LegalMove(game, Val(selectedSquare), sq)
           /\ PointerDownWith(sq, 1)) =>
              /\ selectedSquare' = Some(sq)
              /\ hlSelected' = {sq}
              /\ hlSquares' = GameMoves(game, sq)
              /\ game' = game /\ board' = board
              /\ Notified' = 0]_vars

\* C14 witness: on the starting position the tap that followed the
\* selection of a pawn has the bishop of f1 selected and highlighted, no
\* other square highlighted (the bishop has no move), the position as it
\* was and nothing notified.
C14_Witness ==
    /\ lastOp = "pointerDown"
    /\ ~isEditMode
    /\ game = NewGame /\ board = StartPosition
    /\ selectedSquare = Some(f1)
    /\ hlSelected = {f1} /\ hlSquares = {}
    /\ Notified = 0

\* C15: in play mode with a piece selected, a tap on a square that is
\* neither a legal destination of the selected piece nor another square
\* holding a piece of the side to move (the selected square itself
\* included) leaves no square selected and no square highlighted, the
\* position and the board as they are, and invokes no callback.
C15_TapElsewhereCancels ==
    [][\A sq \in TapSquares :
          (/\ ~isEditMode
           /\ lastOp' = "pointerDown"
           /\ selectedSquare # Undefined
           /\ ~LegalMove(game, Val(selectedSquare), sq)
           /\ (Val(selectedSquare) = sq \/ ~OwnPieceOn(sq))
           /\ PointerDownWith(sq, 1)) =>
              /\ selectedSquare' = Undefined
              /\ hlSelected' = {} /\ hlSquares' = {}
              /\ game' = game /\ board' = board
              /\ Notified' = 0]_vars

\* C16: in play mode the widget is allowed to drag the piece under the
\* pointer exactly when that piece is of the side to move and the game is
\* not over; a piece of the other side is never dragged, nor any piece of a
\* finished game, whether the press is of the mouse, of one finger or of
\* several.
C16_DragOnlySideToMove ==
    [][(~isEditMode /\ lastOp' \in {"pointerDown", "touchDown"}) =>
          LET over == GameOver(game)
              touches == IF lastOp' = "pointerDown" THEN 1 ELSE 2
          IN  \A sq \in TapSquares :
                 PointerDownWith(sq, touches) =>
                    /\ dragging' # Undefined <=>
                          /\ board[sq] # Undefined
                          /\ board[sq][1] = GameTurn(game)
                          /\ ~over
                    /\ dragging' # Undefined => Val(dragging').source = sq]_vars

\* C16 witness: in a finished game (two bare kings) the king of the side to
\* move was pressed: the tap selected it and the drag was refused.
C16_Witness ==
    /\ lastOp = "pointerDown"
    /\ ~isEditMode
    /\ GameOver(game)
    /\ selectedSquare = Some(e2)
    /\ board[e2] = <<"w", "K">>
    /\ dragging = Undefined

\* C17: in play mode a drop on a legal destination of the dragged piece
\* makes the move, invokes the position-changed callback exactly once and
\* leaves no square selected and no square highlighted, as the tap path
\* does.
C17_DropLikeTap ==
    [][\A target \in DropTargets :
          (/\ ~isEditMode
           /\ lastOp' = "pointerUp"
           /\ dragging # Undefined
           /\ LegalMove(game, Val(dragging).source, target)
           /\ PointerUpOver(target)) =>
              /\ game' = Val(GameMove(game, Val(dragging).source, target))
              /\ Notified' = 1
              /\ selectedSquare' = Undefined
              /\ hlSelected' = {} /\ hlSquares' = {}]_vars

\* C18: in play mode a drop the rules engine rejects (the source square and
\* a drop outside the board included) returns 'snapback': the piece goes
\* back, the position and the board stay as they are and the
\* position-changed callback is not invoked.
C18_IllegalDropSnapsBack ==
    [][\A target \in DropTargets :
          (/\ ~isEditMode
           /\ lastOp' = "pointerUp"
           /\ dragging # Undefined
           /\ ~LegalMove(game, Val(dragging).source, target)
           /\ PointerUpOver(target)) =>
              /\ onDrop(Cur, Val(dragging).source, target,
                        Val(dragging).piece).ret = "snapback"
              /\ game' = game /\ board' = board
              /\ snapPending' = snapPending
              /\ Notified' = 0]_vars

\* C18 witness: the pawn of e2 was pressed and dropped where it may not go;
\* the game is the new game still and nothing was notified.
C18_Witness ==
    /\ lastOp = "pointerUp"
    /\ ~isEditMode
    /\ edits = 0
    /\ game = NewGame /\ board = StartPosition
    /\ selectedSquare = Some(e2)
    /\ Notified = 0

\* C19: in edit mode a spare piece dropped on a square is on that square
\* afterwards, the other squares as before, and the rules engine then has
\* the occupancy of the board and the side of the selector; a piece dropped
\* from another square is on its target afterwards and gone from its
\* source, and the timer the drop sets gives the rules engine the occupancy
\* of the board and the side of the selector.
C19_EditDropOverwrites ==
    [][/\ \A sq \in SpareSquares :
             (isEditMode /\ selectedPiece # Undefined
                 /\ Commit(spareDrop(Cur, sq), "spareDrop")) =>
                /\ board' = [board EXCEPT ![sq] = Val(selectedPiece)]
                /\ game' = [occ |-> board', turn |-> selectTurn]
       /\ \A target \in DropTargets \ {Offboard} :
             (isEditMode /\ PointerUpOver(target)) =>
                /\ board'[target] = Val(dragging).piece
                /\ Val(dragging).source # target =>
                      board'[Val(dragging).source] = Undefined
                /\ \A sq \in Squares \ {target, Val(dragging).source} :
                      board'[sq] = board[sq]
                /\ syncTimers' = syncTimers + 1
       /\ lastOp' = "syncTimer" =>
             game' = [occ |-> board, turn |-> selectTurn]]_vars

\* C19 witness: with black chosen as the side to move, a spare queen was
\* dropped on e4 and the rules engine has the board with black to move.
C19_Witness ==
    /\ lastOp = "spareDrop"
    /\ isEditMode
    /\ selectTurn = "b"
    /\ board[e4] = <<"w", "Q">>
    /\ game = [occ |-> board, turn |-> "b"]

\* C20: in edit mode a piece dropped outside the board is gone from the
\* board, and the rules engine position is made anew from the board with
\* one position-changed callback, in the drop itself or by a timer it sets.
C20_EditTrashRemoves ==
    [][(isEditMode /\ PointerUpOver(Offboard)) =>
          /\ board' = [board EXCEPT ![Val(dragging).source] = Undefined]
          /\ \/ game'.occ = board' /\ Notified' = 1
             \/ syncTimers' = syncTimers + 1]_vars

\* The text syncGameFromBoard gives the loader in the next state.
SynthesizedNext == positionToFen(board', selectTurn')

\* C21: when the loader rejects the text synthesized from the board and the
\* selector (by the listener of a spare drop, by the timer of a drop or by
\* a listener of the selector), the position of the rules engine stays as
\* it was, no error callback is invoked, and every position-changed
\* callback of the step carries that unchanged position.
C21_RejectedSyncKeepsPosition ==
    [][(/\ \/ lastOp' = "syncTimer"
           \/ lastOp' = "selectTurn"
           \/ lastOp' = "spareDrop" /\ isEditMode /\ selectedPiece # Undefined
        /\ FenDecode(SynthesizedNext) = Undefined) =>
          /\ game' = game
          /\ Fired("onError")' = {}
          /\ \A i \in Fired("onPositionChange")' :
                /\ fired'[i].arg.fen = GameFen(game)
                /\ fired'[i].arg.turn = GameTurn(game)]_vars

\* C21 witness: with a selector value the loader rejects, a queen was
\* dropped on e4: the board shows it, the rules engine has the previous
\* position, and the one callback invoked carries that position.
C21_Witness ==
    /\ lastOp = "spareDrop"
    /\ selectTurn = "x"
    /\ board[e4] = <<"w", "Q">>
    /\ game = NewGame
    /\ Notified = 1
    /\ \A i \in Fired("onPositionChange") : fired[i].arg.fen = StartFen

\* C22: in every reachable state where the pointer has just left the
\* board's squares (the mouse-out listener was the last to run), the
\* highlighted squares are none when no square is selected, and otherwise
\* exactly the selected square and the legal destinations of its piece:
\* a preview added by a hover during a selection is gone by then.
C22_HighlightsWhenNotHovering ==
    lastOp = "mouseOut" =>
        hlSelected \cup hlSquares =
            IF selectedSquare = Undefined THEN {}
            ELSE {Val(selectedSquare)} \cup GameMoves(game, Val(selectedSquare))

\* C23: while a square is selected, no hover event (the pointer entering
\* or leaving a square of the board or an item of the list of best moves)
\* removes or replaces the highlighting of the selection: the selection
\* stays, and every square highlighted before is highlighted after.
C23_HoverKeepsSelection ==
    [][(/\ lastOp' \in {"mouseOver", "mouseOut", "itemEnter", "itemLeave"}
        /\ selectedSquare # Undefined) =>
          /\ selectedSquare' = selectedSquare
          /\ hlSelected \subseteq hlSelected'
          /\ hlSquares \subseteq hlSquares']_vars

\* C24: Board.loadFen of a text the loader rejects returns false and the
\* load button's listener then leaves the position, the board and the log
\* of commands sent to the engine as they were and invokes no
\* position-changed callback; loadFen of a text the loader accepts returns
\* true.
C24_RejectedLoadChangesNothing ==
    [][\A fen \in FenInputs \ {<<>>} :
          (/\ lastOp' = "clickLoadFen"
           /\ Quiet
           /\ Commit(clickLoadFen(Cur, fen), "clickLoadFen")) =>
              IF FenDecode(fen) = Undefined
              THEN /\ ~loadFen(Cur, fen).ret
                   /\ game' = game /\ board' = board
                   /\ Notified' = 0
                   /\ sent' = sent /\ cmdQ' = cmdQ
              ELSE loadFen(Cur, fen).ret]_vars

\* C24 witness: while the analysis of a position other than the initial one
\* is running, a load left everything as it was and invoked no callback.
C24_Witness ==
    /\ lastOp = "clickLoadFen"
    /\ appIsAnalyzing /\ isAnalyzing
    /\ game # NewGame
    /\ fired = <<>>
    /\ sent[Len(sent)] = CmdGo

\* C25: a failure of the channel to the worker (the worker cannot be
\* started, or it raises an error once started) is terminal and surfaced:
\* the step invokes the error callback exactly once and sends nothing (no
\* new handshake), and it leaves a session that is not ready and whose
\* analyze sends no command.
C25_ChannelFailureTerminal ==
    [][(\/ lastOp' = "error"
        \/ lastOp' = "init" /\ ~worker') =>
          /\ Cardinality(Fired("onError"))' = 1
          /\ sent' = sent
          /\ ~isReady'
          /\ \A fen \in AnalyzeFens : (analyze(Cur, fen).sent)' = sent']_vars

\* The text positionToFen makes of what the widget shows and the selector.
Synthesized == positionToFen(board, selectTurn)

\* C26: positionToFen yields, for every board and side to move, a text
\* made of the placement, a space, the side to move and ' KQkq - 0 1'; the
\* placement has exactly seven '/', its eight fields describe the ranks 8
\* down to 1, each field expands to exactly 8 squares, no two digits are
\* adjacent, white pieces are upper-case letters and black ones
\* lower-case, and decoding the placement gives back the board.
C26_PositionToFenShape ==
    LET fen == Synthesized
        sp == IndexFrom(fen, " ", 1)
        place == SubSeq(fen, 1, sp - 1)
        rows == Split(place, "/")
        decoded == DecodeRows(rows, 1)
    IN  /\ SubSeq(fen, sp, Len(fen)) =
              <<" ", selectTurn, " ", "K", "Q", "k", "q", " ", "-", " ", "0", " ", "1">>
        /\ Cardinality({i \in 1..Len(place) : place[i] = "/"}) = 7
        /\ Len(rows) = 8
        /\ \A i \in 1..(Len(place) - 1) :
              ~(DigitValue(place[i]) > 0 /\ DigitValue(place[i + 1]) > 0)
        /\ \A i \in 1..Len(place) :
              \/ place[i] = "/"
              \/ DigitValue(place[i]) > 0
              \/ PieceOfChar(place[i]) # Undefined
        /\ \A k \in 1..8 :
              /\ decoded[k] # Undefined
              /\ \A f \in 1..8 : Val(decoded[k])[f] = board[<<f, 9 - k>>]

\* C26 witness: the selector was changed to black on a board whose fifth
\* rank holds a black queen on d5 next to a white king on e5, and whose
\* eighth rank is empty: the text starts with '8/' and its fourth field is
\* '3qK3'.
C26_Witness ==
    /\ lastOp = "selectTurn"
    /\ selectTurn = "b"
    /\ Split(SubSeq(Synthesized, 1, IndexFrom(Synthesized, " ", 1) - 1), "/")[4]
          = <<"3", "q", "K", "3">>
    /\ Synthesized[1] = "8"
    /\ GameFen(game) = Synthesized

\* C27: a step that invokes the position-changed callback while the
\* coordinator is analyzing sends, after everything sent before,
\* 'position fen' of the position the rules engine now holds followed by
\* 'go infinite'; and in every state where the coordinator is analyzing,
\* the last 'position fen' command names the current position and is
\* followed by 'go infinite', the last command sent.
C27_PositionChangeRestarts ==
    /\ [](appIsAnalyzing =>
            /\ LastPositionIdx > 0
            /\ sent[LastPositionIdx] = CmdPosition(GameFen(game))
            /\ LastPositionIdx + 1 = Len(sent)
            /\ sent[Len(sent)] = CmdGo)
    /\ [][(appIsAnalyzing /\ Notified' > 0) =>
            \E k \in (Len(sent) + 1)..(Len(sent') - 1) :
                /\ sent'[k] = CmdPosition(GameFen(game'))
                /\ sent'[k + 1] = CmdGo
                /\ \A j \in (k + 1)..Len(sent') : ~IsPositionCmd(sent'[j])]_vars

\* C27 witness: while the analysis was running a text was loaded: the one
\* callback invoked carries the loaded position, which the last two
\* commands hand to the engine.
C27_Witness ==
    /\ lastOp = "clickLoadFen"
    /\ appIsAnalyzing
    /\ Notified = 1
    /\ game # NewGame
    /\ \A i \in Fired("onPositionChange") : fired[i].arg.fen = GameFen(game)
    /\ Len(sent) >= 2
    /\ sent[Len(sent) - 1] = CmdPosition(GameFen(game))
    /\ sent[Len(sent)] = CmdGo

\* C28: in every state left by a handler of a user event (analyse button,
\* tap, drop, load, reset, clear, edit button, Escape), the coordinator's
\* analyzing flag equals the session's, Engine.analyzing().
C28_FlagsAgree ==
    lastOp \in {"clickAnalyze", "pointerDown", "touchDown", "pointerUp", "clickLoadFen",
                "clickReset", "clickClear", "clickEdit", "keyEscape"} =>
        appIsAnalyzing = analyzing(Cur)

\* C28 witness: the analyse button was pressed while the handshake was
\* under way: nothing was sent and neither flag is set.
C28_Witness ==
    /\ lastOp = "clickAnalyze"
    /\ worker /\ ~isReady
    /\ sent = <<CmdUci>>
    /\ ~appIsAnalyzing /\ ~analyzing(Cur)

\* C29: in every state left by a handler in which the board is in edit
\* mode, neither the coordinator nor the session is analyzing and the last
\* command sent to the engine is not 'go infinite'.
C29_NoAnalysisInEditMode ==
    isEditMode =>
        /\ ~appIsAnalyzing
        /\ ~analyzing(Cur)
        /\ sent # <<>> => sent[Len(sent)] # CmdGo

\* C29 witness: the edit button was pressed while the analysis was running:
\* the board is in edit mode and the last command sent is the 'stop' of
\* that analysis.
C29_Witness ==
    /\ lastOp = "clickEdit"
    /\ isEditMode
    /\ LastPositionIdx > 0
    /\ sent[Len(sent)] = CmdStop
    /\ sent[Len(sent) - 1] = CmdGo
    /\ ~appIsAnalyzing /\ ~analyzing(Cur)

\* The line the next delivery hands to handleMessage is one the session
\* stores in its table.
StoredLine(ln) ==
    /\ startsWithInfo(ln) /\ includesScore(ln) /\ includesPv(ln)
    /\ Storable(ParseInfo(ln))

\* C30: the delivery of a line of the worker changes the display only
\* while the coordinator's analyzing flag is set; a line the session
\* stores that is delivered while the flag is clear enters the table and
\* invokes the session's analysis callback once, and leaves the display as
\* it was.
C30_DisplayOnlyWhileAnalyzing ==
    [][lastOp' = "deliver" =>
          /\ display' # display => appIsAnalyzing
          /\ (~appIsAnalyzing /\ StoredLine(Head(outQ))) =>
                /\ analysisLines' = PutLine(analysisLines, ParseInfo(Head(outQ)))
                /\ Cardinality(Fired("onAnalysis"))' = 1
                /\ \A i \in Fired("onAnalysis")' :
                      fired'[i].arg.lines = analysisLines'
                /\ display' = display]_vars

\* C30 witness: after the analysis was stopped a line was delivered: the
\* callback was invoked with a table holding the line, and the display
\* still shows the table of an earlier line.
C30_Witness ==
    /\ lastOp = "deliver"
    /\ ~appIsAnalyzing
    /\ Cardinality(Fired("onAnalysis")) = 1
    /\ display # Undefined
    /\ 2 \in DOMAIN analysisLines
    /\ 2 \notin DOMAIN Val(display).lines

\* C31: whenever a square is selected, the position of the rules engine
\* holds on it a piece of the side to move.
C31_SelectionOnOwnPiece ==
    selectedSquare # Undefined =>
        /\ GameGet(game, Val(selectedSquare)) # Undefined
        /\ GameGet(game, Val(selectedSquare))[1] = GameTurn(game)

\* C32: while the board is in play mode the position of the rules engine
\* changes only through a tap or a drop that makes a move, a reset, a
\* clear or a load; the re-synthesis from the board runs only in edit
\* mode, be it from the timer of an edit-mode drop or from a listener
\* added to the side-to-move selector by an earlier stay in edit mode.
C32_NoSyncInPlayMode ==
    [][/\ (\/ lastOp' = "syncTimer"
           \/ lastOp' = "selectTurn" /\ editListeners > 0) => isEditMode
       /\ (~isEditMode /\ game' # game) =>
              lastOp' \in {"pointerDown", "pointerUp", "clickReset",
                           "clickClear", "clickLoadFen"}]_vars

\* C33: a change of the side-to-move selector in edit mode invokes the
\* position-changed callback exactly once, however many times edit mode
\* was entered before.
C33_OneNotificationPerChange ==
    [][(lastOp' = "selectTurn" /\ isEditMode) => Notified' = 1]_vars

=============================================================================
